---- MODULE Spec2Model ----
(***************************************************************************)
(* Ingestion agent (agent/agent.py), its validator, canonicalizer and      *)
(* writer, and the Neo4j mutation repository (repositories/ingest_repo.py) *)
(* modelled as a state machine over a small graph store.                   *)
(*                                                                         *)
(* A property map (a Python dict) is a function whose DOMAIN is the set of *)
(* keys that are present; Python's None is the value NONE.                 *)
(***************************************************************************)
EXTENDS Integers, Sequences, FiniteSets, TLC

VARIABLES
    nodes,      \* the store's nodes, in creation order: [label, props]
    rels,       \* the store's relationships, in creation order: [src, type, dst, props]
    schema,     \* the store's uniqueness constraints and indexes
    last,       \* the most recent direct repository call and what its query bound
    pc,         \* the graph node the run is about to execute
    state,      \* the run's IngestionState
    outcome,    \* what run() gave its caller
    trace,      \* the stages this run has gone through, in order
    mcalls,     \* the mutation-layer calls this run has issued, in order
    ocalls,     \* how often this run has called the extraction and the repair model
    runs,       \* number of runs started so far
    pipe        \* IngestionPipeline.run: its files, the next one, how far it got

storeVars == <<nodes, rels, schema>>
runVars   == <<pc, state, outcome, trace, mcalls, ocalls, runs>>
vars      == <<storeVars, last, runVars, pipe>>

(***************************************************************************)
(* Bounds of the model.                                                    *)
(***************************************************************************)
MaxNodes == 2     \* direct repository calls stop creating nodes at this size
MaxFix   == 2     \* max_fix_attempts is drawn from 0..MaxFix
MaxRuns  == 2     \* ingestion runs per behaviour
MaxNorm  == 2     \* applications of normalize to one payload
MaxItems == 2     \* nodes, and relationships, of a payload handed to the writer
MaxFiles == 2     \* files in the directory the pipeline walks

(***************************************************************************)
(* Python values.                                                          *)
(***************************************************************************)
NONE == "<None>"

EmptyMap == <<>>

Truthy(v) == v # NONE /\ v # ""

\* A property value is written as its JSON text; this one is an object
NestedMap == "{'lat': '1'}"

\* dict.get(k) with the default None
Get(m, k) == IF k \in DOMAIN m THEN m[k] ELSE NONE

\* {**a, **b}
Overlay(a, b) ==
    [k \in (DOMAIN a) \cup (DOMAIN b) |-> IF k \in DOMAIN b THEN b[k] ELSE a[k]]

(***************************************************************************)
(* domain/enums.py                                                         *)
(***************************************************************************)
NodeLabel ==
    { "Person", "Organization", "IncomeRecord", "Property", "Request",
      "Executor", "PowerOfAttorney", "Address", "Document", "CourtCase",
      "LandParcel", "BirthRecord", "KvedActivity", "NotarialBlank",
      "PersonAlias" }

RelType ==
    { "DIRECTOR_OF", "FOUNDER_OF", "HAS_KVED", "CHILD_OF", "SPOUSE_OF",
      "EARNED_INCOME", "PAID_BY", "OWNS", "HAS_GRANTOR", "HAS_REPRESENTATIVE",
      "HAS_PROPERTY", "HAS_NOTARIAL_BLANK", "CREATED_BY", "ABOUT", "PROVIDED" }

(***************************************************************************)
(* repositories/ingest_repo.py                                             *)
(***************************************************************************)
ID_KEYS ==
    [ Person          |-> "rnokpp",
      PersonAlias     |-> "alias_id",
      Organization    |-> "edrpou",
      KvedActivity    |-> "code",
      Request         |-> "request_id",
      Executor        |-> "executor_id",
      IncomeRecord    |-> "income_id",
      Property        |-> "property_id",
      LandParcel      |-> "land_id",
      PowerOfAttorney |-> "poa_id",
      NotarialBlank   |-> "blank_id",
      Address         |-> "address_id",
      Document        |-> "doc_id",
      CourtCase       |-> "case_id",
      BirthRecord     |-> "record_id" ]

\* GraphRepository._to_props on a dict: entries whose value is None are dropped
to_props(obj) == [k \in {j \in DOMAIN obj : obj[j] # NONE} |-> obj[k]]

\* A node pattern (n:label {k: params[k], ...}) matches node n of the store
Matches(n, label, keys, params) ==
    /\ n.label = label
    /\ \A k \in keys : k \in DOMAIN n.props /\ n.props[k] = params[k]

MatchSet(ns, label, keys, params) ==
    {i \in DOMAIN ns : Matches(ns[i], label, keys, params)}

\* SET n.k = $k for every k of sp, on the nodes (or relationships) in `on`
SetProps(xs, on, sp) ==
    [i \in DOMAIN xs |->
        IF i \in on THEN [xs[i] EXCEPT !.props = Overlay(@, sp)] ELSE xs[i]]

(***************************************************************************)
(* GraphRepository.merge_node.  The result says whether the call raised,   *)
(* the store's nodes after it and the nodes its MERGE bound.  The query    *)
(* parameters are {**key_props, **set_props}: the MERGE pattern reads the  *)
(* key names from key_props and their values from the parameters.          *)
(***************************************************************************)
merge_node(ns, label, key_props, set_props) ==
    IF DOMAIN key_props = {}
    THEN [raised |-> TRUE, nodes |-> ns, bound |-> {}]
    ELSE
        LET kp      == to_props(key_props)
            sp      == to_props(set_props)
            params  == Overlay(kp, sp)
            keys    == DOMAIN kp
            found   == MatchSet(ns, label, keys, params)
            created == [label |-> label, props |-> [k \in keys |-> params[k]]]
            ns1     == IF found = {} THEN Append(ns, created) ELSE ns
            bound   == IF found = {} THEN {Len(ns) + 1} ELSE found
        IN  [raised |-> FALSE, nodes |-> SetProps(ns1, bound, sp), bound |-> bound]

\* GraphRepository._id_key
id_key(label) == ID_KEYS[label]

(***************************************************************************)
(* GraphRepository.merge_relationship: both MATCH clauses must bind before *)
(* the MERGE of the relationship runs, once per bound pair.                *)
(***************************************************************************)
RelIndex(rs, a, t, b) ==
    {i \in DOMAIN rs : rs[i].src = a /\ rs[i].type = t /\ rs[i].dst = b}

\* CREATE (a)-[r]->(b) in place of MERGE: a relationship per call
RECURSIVE CreatePairs(_, _, _)
CreatePairs(rs, pairs, t) ==
    IF pairs = {} THEN rs
    ELSE LET p == CHOOSE q \in pairs : TRUE
         IN  CreatePairs(Append(rs, [src |-> p[1], type |-> t, dst |-> p[2],
                                     props |-> EmptyMap]), pairs \ {p}, t)

RECURSIVE MergePairs(_, _, _)
MergePairs(rs, pairs, t) ==
    IF pairs = {} THEN rs
    ELSE LET p   == CHOOSE q \in pairs : TRUE
             rs1 == IF RelIndex(rs, p[1], t, p[2]) = {}
                    THEN Append(rs, [src |-> p[1], type |-> t, dst |-> p[2],
                                     props |-> EmptyMap])
                    ELSE rs
         IN  MergePairs(rs1, pairs \ {p}, t)

\* MERGE in place of MATCH for the endpoints: an absent endpoint is created
merge_relationship_creating(ns, rs, from_label, from_id_value, rel_type, to_label, to_id_value, rel_props) ==
    LET na  == merge_node(ns, from_label,
                          [k \in {id_key(from_label)} |-> from_id_value], EmptyMap)
        nb  == merge_node(na.nodes, to_label,
                          [k \in {id_key(to_label)} |-> to_id_value], EmptyMap)
        rs1 == MergePairs(rs, na.bound \X nb.bound, rel_type)
        bound == {i \in DOMAIN rs1 :
                    /\ <<rs1[i].src, rs1[i].dst>> \in na.bound \X nb.bound
                    /\ rs1[i].type = rel_type}
    IN  [raised |-> FALSE, nodes |-> nb.nodes,
         rels |-> SetProps(rs1, bound, to_props(rel_props)), bound |-> bound]

\* An endpoint that matches no node is reported as an error
merge_relationship_strict(ns, rs, from_label, from_id_value, rel_type, to_label, to_id_value, rel_props) ==
    LET from_id_key == id_key(from_label)
        to_id_key   == id_key(to_label)
        rp          == to_props(rel_props)
        A     == IF from_id_value = NONE THEN {}
                 ELSE MatchSet(ns, from_label, {from_id_key},
                               [k \in {from_id_key} |-> from_id_value])
        B     == IF to_id_value = NONE THEN {}
                 ELSE MatchSet(ns, to_label, {to_id_key},
                               [k \in {to_id_key} |-> to_id_value])
        pairs == A \X B
        rs1   == MergePairs(rs, pairs, rel_type)
        bound == {i \in DOMAIN rs1 :
                    <<rs1[i].src, rs1[i].dst>> \in pairs /\ rs1[i].type = rel_type}
    IN  [raised |-> pairs = {}, nodes |-> ns,
         rels |-> IF pairs = {} THEN rs ELSE SetProps(rs1, bound, rp),
         bound |-> bound]

merge_relationship(ns, rs, from_label, from_id_value, rel_type, to_label, to_id_value, rel_props) ==
    LET from_id_key == id_key(from_label)
        to_id_key   == id_key(to_label)
        rp          == to_props(rel_props)
        A     == IF from_id_value = NONE THEN {}
                 ELSE MatchSet(ns, from_label, {from_id_key},
                               [k \in {from_id_key} |-> from_id_value])
        B     == IF to_id_value = NONE THEN {}
                 ELSE MatchSet(ns, to_label, {to_id_key},
                               [k \in {to_id_key} |-> to_id_value])
        pairs == A \X B
        rs1   == MergePairs(rs, pairs, rel_type)
        bound == {i \in DOMAIN rs1 :
                    <<rs1[i].src, rs1[i].dst>> \in pairs /\ rs1[i].type = rel_type}
    IN  [raised |-> FALSE, nodes |-> ns, rels |-> SetProps(rs1, bound, rp),
         bound |-> bound]

(***************************************************************************)
(* GraphRepository.ensure_constraints: one CREATE statement per entry of   *)
(* its two lists, all run in one write transaction.                        *)
(***************************************************************************)
\* label.value.lower()
Lower ==
    [ Person          |-> "person",
      PersonAlias     |-> "personalias",
      Organization    |-> "organization",
      KvedActivity    |-> "kvedactivity",
      Request         |-> "request",
      Executor        |-> "executor",
      IncomeRecord    |-> "incomerecord",
      Property        |-> "property",
      LandParcel      |-> "landparcel",
      PowerOfAttorney |-> "powerofattorney",
      NotarialBlank   |-> "notarialblank",
      Address         |-> "address",
      Document        |-> "document",
      CourtCase       |-> "courtcase",
      BirthRecord     |-> "birthrecord" ]

\* The list with the entry of one label left out
unique_constraints_one_short ==
    << <<"Person", "rnokpp">>, <<"PersonAlias", "alias_id">>,
       <<"Organization", "edrpou">>, <<"KvedActivity", "code">>,
       <<"Request", "request_id">>, <<"Executor", "executor_id">>,
       <<"IncomeRecord", "income_id">>, <<"Property", "property_id">>,
       <<"LandParcel", "land_id">>, <<"PowerOfAttorney", "poa_id">>,
       <<"NotarialBlank", "blank_id">>, <<"Address", "address_id">>,
       <<"Document", "doc_id">>, <<"CourtCase", "case_id">> >>

unique_constraints ==
    << <<"Person", "rnokpp">>, <<"PersonAlias", "alias_id">>,
       <<"Organization", "edrpou">>, <<"KvedActivity", "code">>,
       <<"Request", "request_id">>, <<"Executor", "executor_id">>,
       <<"IncomeRecord", "income_id">>, <<"Property", "property_id">>,
       <<"LandParcel", "land_id">>, <<"PowerOfAttorney", "poa_id">>,
       <<"NotarialBlank", "blank_id">>, <<"Address", "address_id">>,
       <<"Document", "doc_id">>, <<"CourtCase", "case_id">>,
       <<"BirthRecord", "record_id">> >>

indexes ==
    << <<"Person", <<"last_name", "first_name">> >>,
       <<"Person", <<"date_birth">> >>,
       <<"Organization", <<"name">> >>,
       <<"Organization", <<"state">> >>,
       <<"IncomeRecord", <<"period_year">> >>,
       <<"IncomeRecord", <<"income_type_code">> >>,
       <<"Request", <<"application_date">> >> >>

\* '_'.join(props)
RECURSIVE Join(_)
Join(props) ==
    IF Len(props) = 1 THEN props[1] ELSE props[1] \o "_" \o Join(Tail(props))

\* CREATE CONSTRAINT / CREATE INDEX with no IF NOT EXISTS clause
cypher_statements_unguarded ==
    [i \in 1..Len(unique_constraints) |->
        [kind |-> "constraint",
         name |-> Lower[unique_constraints[i][1]] \o "_" \o unique_constraints[i][2]
                     \o "_unique",
         label |-> unique_constraints[i][1],
         props |-> << unique_constraints[i][2] >>,
         if_not_exists |-> FALSE]]
    \o
    [i \in 1..Len(indexes) |->
        [kind |-> "index",
         name |-> Lower[indexes[i][1]] \o "_" \o Join(indexes[i][2]) \o "_idx",
         label |-> indexes[i][1],
         props |-> indexes[i][2],
         if_not_exists |-> FALSE]]

cypher_statements ==
    [i \in 1..Len(unique_constraints) |->
        [kind |-> "constraint",
         name |-> Lower[unique_constraints[i][1]] \o "_" \o unique_constraints[i][2]
                     \o "_unique",
         label |-> unique_constraints[i][1],
         props |-> << unique_constraints[i][2] >>,
         if_not_exists |-> TRUE]]
    \o
    [i \in 1..Len(indexes) |->
        [kind |-> "index",
         name |-> Lower[indexes[i][1]] \o "_" \o Join(indexes[i][2]) \o "_idx",
         label |-> indexes[i][1],
         props |-> indexes[i][2],
         if_not_exists |-> TRUE]]

\* The store already has an entry of this name, or one of this kind on the
\* same label and properties
Exists(sch, stmt) ==
    \E e \in sch :
        \/ e.name = stmt.name
        \/ e.kind = stmt.kind /\ e.label = stmt.label /\ e.props = stmt.props

\* tx.run(stmt) for the statements from the i-th on
RECURSIVE run_statements(_, _, _)
run_statements(sch, stmts, i) ==
    IF i > Len(stmts) THEN [raised |-> FALSE, schema |-> sch]
    ELSE IF Exists(sch, stmts[i])
         THEN IF stmts[i].if_not_exists
              THEN run_statements(sch, stmts, i + 1)
              ELSE [raised |-> TRUE, schema |-> sch]
         ELSE run_statements(
                  sch \cup { [kind  |-> stmts[i].kind, name  |-> stmts[i].name,
                              label |-> stmts[i].label, props |-> stmts[i].props] },
                  stmts, i + 1)

\* session.execute_write(_tx): a transaction that raised leaves no trace
ensure_constraints(sch) ==
    LET r == run_statements(sch, cypher_statements, 1)
    IN  IF r.raised THEN [raised |-> TRUE, schema |-> sch] ELSE r

(***************************************************************************)
(* Direct use of the repository: any caller, any order of calls.           *)
(***************************************************************************)
NoCall ==
    [op |-> "none", label |-> "", key_props |-> EmptyMap, set_props |-> EmptyMap,
     from_id |-> "", rel_type |-> "", to_label |-> "", to_id |-> "",
     raised |-> FALSE, bound |-> {}, same |-> TRUE, found |-> {}]

\* Arguments the callers pass to merge_node
PersonKeys == { EmptyMap, [rnokpp |-> "1"], [rnokpp |-> "2"], [rnokpp |-> NONE] }
PersonSets == { EmptyMap, [name |-> "a"], [name |-> "b"], [name |-> NONE],
                [rnokpp |-> "2"] }
NodeCalls ==
    ({"Person"} \X PersonKeys \X PersonSets)
        \cup { <<"Organization", [edrpou |-> "1"], EmptyMap>>,
               <<"Organization", [edrpou |-> "1"], [name |-> "a"]>> }

\* Arguments the callers pass to merge_relationship, and the merge_node
\* calls that create the endpoints they name
RelProps == { [w |-> "a"], [w |-> "b"], [w |-> NONE] }
RelCalls ==
    { <<"Person", "1">>, <<"Person", "2">>, <<"Organization", "1">> }
        \X {"OWNS"} \X { <<"Person", "1">> } \X RelProps
EndpointCalls ==
    { <<"Person", [rnokpp |-> "1"], EmptyMap>>,
      <<"Person", [rnokpp |-> "2"], EmptyMap>>,
      <<"Person", [rnokpp |-> NONE], [rnokpp |-> "1"]>> }

MergeNode(c) ==
    LET r == merge_node(nodes, c[1], c[2], c[3])
    IN  /\ Len(r.nodes) <= MaxNodes
        /\ nodes' = r.nodes
        /\ last' = [NoCall EXCEPT !.op = "merge_node", !.label = c[1],
                                  !.key_props = c[2], !.set_props = c[3],
                                  !.raised = r.raised, !.bound = r.bound,
                                  !.same = \/ last.op = "none"
                                           \/ /\ last.same
                                              /\ last.op = "merge_node"
                                              /\ last.label = c[1]
                                              /\ last.key_props = c[2]]
        /\ UNCHANGED <<rels, schema, runVars, pipe>>

MergeRelationship(c) ==
    LET r == merge_relationship(nodes, rels, c[1][1], c[1][2], c[2], c[3][1],
                                c[3][2], c[4])
    IN  /\ nodes' = r.nodes
        /\ rels' = r.rels
        /\ last' = [NoCall EXCEPT !.op = "merge_relationship", !.label = c[1][1],
                                  !.from_id = c[1][2], !.rel_type = c[2],
                                  !.to_label = c[3][1], !.to_id = c[3][2],
                                  !.set_props = c[4],
                                  !.raised = r.raised, !.bound = r.bound,
                                  !.same = FALSE]
        /\ UNCHANGED <<schema, runVars, pipe>>

\* `found` is what the call found in place: the names already in the store
EnsureConstraints ==
    LET r == ensure_constraints(schema)
    IN  /\ schema' = r.schema
        /\ last' = [NoCall EXCEPT !.op = "ensure_constraints",
                                  !.raised = r.raised,
                                  !.found = {e.name : e \in schema},
                                  !.same = FALSE]
        /\ UNCHANGED <<nodes, rels, runVars, pipe>>

NoFacts == [nodes |-> <<>>, rels |-> <<>>, meta |-> EmptyMap]
NoFatal == [kind |-> "none", node |-> "", max |-> 0, errors |-> <<>>]
NoInput == [type |-> "none", json |-> ""]

\* The state run() hands to the graph (raw_json and facts are not set yet)
InitialState(raw, max) ==
    [ raw_input        |-> raw,
      raw_json         |-> "UNSET",
      facts            |-> NoFacts,
      errors           |-> <<>>,
      fix_attempts     |-> 0,
      max_fix_attempts |-> max,
      persisted        |-> FALSE,
      fatal_error      |-> NoFatal ]

NoState   == InitialState(NoInput, 0)
NoCalls   == [extract |-> 0, fix |-> 0]
NoOutcome == [kind |-> "none", payload |-> NoFacts, reason |-> NoFatal]

\* No pipeline is running
NoPipe == [files |-> <<>>, pos |-> 1, status |-> "idle"]

InitStore ==
    /\ nodes = <<>>
    /\ rels = <<>>
    /\ schema = {}
    /\ pipe = NoPipe
    /\ last = NoCall

InitRun ==
    /\ pc = "idle"
    /\ state = NoState
    /\ outcome = NoOutcome
    /\ trace = <<>>
    /\ mcalls = <<>>
    /\ ocalls = NoCalls
    /\ runs = 0

Init == InitStore /\ InitRun

\* Callers of merge_node alone
NextNode == \E c \in NodeCalls : MergeNode(c)

SpecNode == Init /\ [][NextNode]_vars

\* Callers of merge_relationship, and of the merge_node calls for its endpoints
NextRel ==
    \/ \E c \in EndpointCalls : MergeNode(c)
    \/ \E c \in RelCalls : MergeRelationship(c)

SpecRel == Init /\ [][NextRel]_vars

\* Schema setup in any order with the merges
NextSchema ==
    \/ EnsureConstraints
    \/ \E c \in EndpointCalls : MergeNode(c)
    \/ \E c \in RelCalls : MergeRelationship(c)

SpecSchema == Init /\ [][NextSchema]_vars

(***************************************************************************)
(* agent/validator.py                                                      *)
(***************************************************************************)
RECURSIVE Flatten(_)
Flatten(ss) == IF ss = <<>> THEN <<>> ELSE Head(ss) \o Flatten(Tail(ss))

Idx(i) == ToString(i - 1)

NodeErrors(i, n) ==
    (IF n.label \notin NodeLabel
     THEN << "nodes[" \o Idx(i) \o "].label='" \o n.label \o "' is not allowed" >>
     ELSE <<>>)
    \o
    (IF DOMAIN n.key_props = {}
     THEN << "nodes[" \o Idx(i) \o "].key_props is empty" >>
     ELSE <<>>)

\* A validator that checks the endpoint ids of a relationship and nothing else
RelErrorsIdsOnly(i, r) ==
    (IF r.from_id = ""
     THEN << "rels[" \o Idx(i) \o "].from_id is empty" >>
     ELSE <<>>)
    \o
    (IF r.to_id = ""
     THEN << "rels[" \o Idx(i) \o "].to_id is empty" >>
     ELSE <<>>)

RelErrors(i, r) ==
    (IF r.from_label \notin NodeLabel
     THEN << "rels[" \o Idx(i) \o "].from_label='" \o r.from_label \o "' is not allowed" >>
     ELSE <<>>)
    \o
    (IF r.to_label \notin NodeLabel
     THEN << "rels[" \o Idx(i) \o "].to_label='" \o r.to_label \o "' is not allowed" >>
     ELSE <<>>)
    \o
    (IF r.rel_type \notin RelType
     THEN << "rels[" \o Idx(i) \o "].rel_type='" \o r.rel_type \o "' is not allowed" >>
     ELSE <<>>)
    \o
    (IF r.from_id = ""
     THEN << "rels[" \o Idx(i) \o "].from_id is empty" >>
     ELSE <<>>)
    \o
    (IF r.to_id = ""
     THEN << "rels[" \o Idx(i) \o "].to_id is empty" >>
     ELSE <<>>)

validate(payload) ==
    Flatten([i \in DOMAIN payload.nodes |-> NodeErrors(i, payload.nodes[i])])
    \o Flatten([i \in DOMAIN payload.rels |-> RelErrors(i, payload.rels[i])])

(***************************************************************************)
(* agent/canonicalizer.py.  The digest of a JSON text is modelled by the   *)
(* text itself (json.dumps with sort_keys), which keeps it a function of   *)
(* the hashed fields and of nothing else.                                  *)
(***************************************************************************)
Json(v) == IF v = NONE THEN "null" ELSE "'" \o v \o "'"

stable_hash_address(full) == "sha{full_text:" \o Json(full) \o "}"

stable_hash_alias(raw_name, dob) ==
    "sha{dob:" \o Json(dob) \o ",name:" \o Json(raw_name) \o "}"

\* a or b
Or(a, b) == IF Truthy(a) THEN a ELSE b

\* A PersonAlias id that is derived again, from the id the node has
normalize_node_props_rehashing(n) ==
    LET raw_name == Or(Get(n.set_props, "full_name_raw"), "")
    IN  IF n.label = "PersonAlias"
        THEN [n EXCEPT !.key_props =
                 Overlay(@, [alias_id |->
                    stable_hash_alias(raw_name, Get(n.key_props, "alias_id"))])]
        ELSE n

\* An Address id that is derived whether or not the node has one
normalize_node_props_overwriting(n) ==
    LET full == Or(Get(n.set_props, "full_text"), Get(n.key_props, "full_text"))
    IN  IF n.label = "Address" /\ Truthy(full)
        THEN [n EXCEPT !.key_props =
                 Overlay(@, [address_id |-> stable_hash_address(full)])]
        ELSE n

\* A PersonAlias id derived from a field outside the canonical ones as well
normalize_node_props_hashing_more(n) ==
    LET raw_name == Or(Get(n.set_props, "full_name_raw"), "")
        dob == Get(n.set_props, "date_birth")
    IN  IF n.label = "PersonAlias" /\ "alias_id" \notin DOMAIN n.key_props
        THEN [n EXCEPT !.key_props =
                 Overlay(@, [alias_id |->
                    stable_hash_alias(raw_name \o Json(Get(n.set_props, "nick")), dob)])]
        ELSE n

normalize_node_props(n) ==
    LET full == Or(Get(n.set_props, "full_text"), Get(n.key_props, "full_text"))
        n1 == IF n.label = "Address" /\ "address_id" \notin DOMAIN n.key_props
                 /\ Truthy(full)
              THEN [n EXCEPT !.key_props =
                       Overlay(@, [address_id |-> stable_hash_address(full)])]
              ELSE n
        raw_name == Or(Get(n1.set_props, "full_name_raw"), "")
        dob == Get(n1.set_props, "date_birth")
    IN  IF n1.label = "PersonAlias" /\ "alias_id" \notin DOMAIN n1.key_props
        THEN [n1 EXCEPT !.key_props =
                 Overlay(@, [alias_id |-> stable_hash_alias(raw_name, dob)])]
        ELSE n1

normalize(payload) ==
    [payload EXCEPT !.nodes = [i \in DOMAIN payload.nodes |->
                                  normalize_node_props(payload.nodes[i])]]

(***************************************************************************)
(* agent/writer.py.  persist_to_neo4j issues one repository call per node  *)
(* and then one per relationship.  NodeLabel(...) and RelType(...) raise   *)
(* on a value outside the enum before the call is issued; the store may    *)
(* fail any call (fail_at is the position of the call the store fails, 0   *)
(* when it fails none).                                                    *)
(***************************************************************************)
NodeCall(n) ==
    [NoCall EXCEPT !.op = "merge_node", !.label = n.label,
                   !.key_props = n.key_props, !.set_props = n.set_props]

RelCall(r) ==
    [NoCall EXCEPT !.op = "merge_relationship", !.label = r.from_label,
                   !.from_id = r.from_id, !.rel_type = r.rel_type,
                   !.to_label = r.to_label, !.to_id = r.to_id,
                   !.set_props = r.rel_props]

CallsOf(payload) ==
    [i \in DOMAIN payload.nodes |-> NodeCall(payload.nodes[i])]
    \o [i \in DOMAIN payload.rels |-> RelCall(payload.rels[i])]

\* The enum conversions of the call's arguments succeed
Convertible(c) ==
    IF c.op = "merge_node" THEN c.label \in NodeLabel
    ELSE c.label \in NodeLabel /\ c.rel_type \in RelType /\ c.to_label \in NodeLabel

Issue(ns, rs, c) ==
    IF c.op = "merge_node"
    THEN LET r == merge_node(ns, c.label, c.key_props, c.set_props)
         IN  [raised |-> r.raised, nodes |-> r.nodes, rels |-> rs]
    ELSE LET r == merge_relationship(ns, rs, c.label, c.from_id, c.rel_type,
                                     c.to_label, c.to_id, c.set_props)
         IN  [raised |-> r.raised, nodes |-> r.nodes, rels |-> r.rels]

RECURSIVE RunCalls(_, _, _, _, _, _)
RunCalls(ns, rs, calls, k, fail_at, issued) ==
    IF k > Len(calls)
    THEN [raised |-> FALSE, nodes |-> ns, rels |-> rs, issued |-> issued]
    ELSE IF ~Convertible(calls[k])
    THEN [raised |-> TRUE, nodes |-> ns, rels |-> rs, issued |-> issued]
    ELSE IF k = fail_at
    THEN [raised |-> TRUE, nodes |-> ns, rels |-> rs,
          issued |-> Append(issued, calls[k])]
    ELSE LET r == Issue(ns, rs, calls[k])
         IN  IF r.raised
             THEN [raised |-> TRUE, nodes |-> ns, rels |-> rs,
                   issued |-> Append(issued, calls[k])]
             ELSE RunCalls(r.nodes, r.rels, calls, k + 1, fail_at,
                           Append(issued, calls[k]))

\* All calls in one transaction: a failure undoes the calls before it
persist_to_neo4j_atomic(payload, ns, rs, fail_at) ==
    LET r == RunCalls(ns, rs, CallsOf(payload), 1, fail_at, <<>>)
    IN  IF r.raised THEN [r EXCEPT !.nodes = ns, !.rels = rs] ELSE r

\* The two loops in the other order: relationships first
persist_to_neo4j_rels_first(payload, ns, rs, fail_at) ==
    RunCalls(ns, rs,
             [i \in DOMAIN payload.rels |-> RelCall(payload.rels[i])]
                 \o [i \in DOMAIN payload.nodes |-> NodeCall(payload.nodes[i])],
             1, fail_at, <<>>)

persist_to_neo4j(payload, ns, rs, fail_at) ==
    RunCalls(ns, rs, CallsOf(payload), 1, fail_at, <<>>)

(***************************************************************************)
(* agent/agent.py.  A graph node's function either returns a state or      *)
(* raises; _safe_node turns what it raises into fatal_error.               *)
(***************************************************************************)
Fatal(kind, node) == [NoFatal EXCEPT !.kind = kind, !.node = node]

set_fatal(st, msg) == [st EXCEPT !.fatal_error = msg]

\* if state.get("fatal_error")
HasFatal(st) == st.fatal_error # NoFatal

\* calls: how often the function called a language model
Return(st) == [raised |-> FALSE, state |-> st, calls |-> 0]
Raise(st)  == [raised |-> TRUE, state |-> st, calls |-> 0]

Called(res, n) == [res EXCEPT !.calls = n]

\* A wrapper that lets the node's exception leave the graph
unsafe_node(name, st, body) ==
    IF HasFatal(st) THEN [propagated |-> FALSE, state |-> st]
    ELSE [propagated |-> body.raised, state |-> body.state]

\* A wrapper that reports the failure on an empty state
safe_node_resetting(name, st, body) ==
    IF HasFatal(st) THEN [propagated |-> FALSE, state |-> st]
    ELSE IF body.raised
    THEN [propagated |-> FALSE, state |-> set_fatal(NoState, Fatal("node_failed", name))]
    ELSE [propagated |-> FALSE, state |-> body.state]

\* A wrapper without the check of fatal_error: fn runs in any state
safe_node_rerunning(name, st, body) ==
    IF body.raised
    THEN [propagated |-> FALSE, state |-> set_fatal(st, Fatal("node_failed", name))]
    ELSE [propagated |-> FALSE, state |-> body.state]

\* body: what fn(state) did; it is not run when fatal_error is set
safe_node(name, st, body) ==
    IF HasFatal(st) THEN [propagated |-> FALSE, state |-> st]
    ELSE IF body.raised
    THEN [propagated |-> FALSE, state |-> set_fatal(st, Fatal("node_failed", name))]
    ELSE [propagated |-> FALSE, state |-> body.state]

\* agent/safe_json.py: a dict or list is returned as it is, a string is
\* parsed as JSON, anything else is refused
safe_parse_raw_input(raw) ==
    CASE raw.type = "none"  -> [raised |-> TRUE,  value |-> ""]
      [] raw.type = "dict"  -> [raised |-> FALSE, value |-> "dict"]
      [] raw.type = "list"  -> [raised |-> FALSE, value |-> "list"]
      [] raw.type = "str"   -> IF raw.json = "invalid"
                               THEN [raised |-> TRUE, value |-> ""]
                               ELSE [raised |-> FALSE, value |-> raw.json]
      [] OTHER              -> [raised |-> TRUE,  value |-> ""]

\* A parser stage that lets any parsed JSON value through
parse_input_node_any_json(st) ==
    IF st.raw_input.type = "none"
    THEN Return(set_fatal(st, Fatal("raw_input_none", "")))
    ELSE LET parsed == safe_parse_raw_input(st.raw_input)
         IN  IF parsed.raised
             THEN Return(set_fatal(st, Fatal("invalid_json", "")))
             ELSE Return([st EXCEPT !.raw_json = "RECORD"])

parse_input_node(st) ==
    IF st.raw_input.type = "none"
    THEN Return(set_fatal(st, Fatal("raw_input_none", "")))
    ELSE LET parsed == safe_parse_raw_input(st.raw_input)
         IN  IF parsed.raised
             THEN Return(set_fatal(st, Fatal("invalid_json", "")))
             ELSE IF parsed.value # "dict"
             THEN Return(set_fatal(st, Fatal("not_dict", "")))
             ELSE Return([st EXCEPT !.raw_json = "RECORD"])

\* ext: what call_llm_extract did, [raised, payload]
extract_node(st, ext) ==
    IF ext.raised THEN Called(Raise(st), ext.calls)
    ELSE Called(Return([st EXCEPT !.facts = ext.payload]), ext.calls)

normalize_node(st) == Return([st EXCEPT !.facts = normalize(st.facts)])

validate_node(st) == Return([st EXCEPT !.errors = validate(st.facts)])

\* The attempt that equals the limit is refused too
fix_node_one_short(st, ext) ==
    LET attempts == st.fix_attempts + 1
    IN  IF attempts >= st.max_fix_attempts
        THEN Return(set_fatal([st EXCEPT !.fix_attempts = attempts],
                       [NoFatal EXCEPT !.kind = "exceeded",
                                       !.max = st.max_fix_attempts,
                                       !.errors = st.errors]))
        ELSE IF ext.raised THEN Called(Raise(st), 1)
        ELSE Called(Return([st EXCEPT !.facts = ext.payload, !.fix_attempts = attempts,
                                      !.errors = <<>>]), 1)

\* The exhaustion reason with the count of the refused attempt as the limit
fix_node_reporting_attempts(st, ext) ==
    LET attempts == st.fix_attempts + 1
    IN  IF attempts > st.max_fix_attempts
        THEN Return(set_fatal([st EXCEPT !.fix_attempts = attempts],
                       [NoFatal EXCEPT !.kind = "exceeded",
                                       !.max = attempts,
                                       !.errors = st.errors]))
        ELSE IF ext.raised THEN Called(Raise(st), 1)
        ELSE Called(Return([st EXCEPT !.facts = ext.payload, !.fix_attempts = attempts,
                                      !.errors = <<>>]), 1)

\* The exhaustion reason without the violations of the last pass
fix_node_losing_errors(st, ext) ==
    LET attempts == st.fix_attempts + 1
    IN  IF attempts > st.max_fix_attempts
        THEN Return(set_fatal([st EXCEPT !.fix_attempts = attempts],
                       [NoFatal EXCEPT !.kind = "exceeded",
                                       !.max = st.max_fix_attempts]))
        ELSE IF ext.raised THEN Called(Raise(st), 1)
        ELSE Called(Return([st EXCEPT !.facts = ext.payload, !.fix_attempts = attempts,
                                      !.errors = <<>>]), 1)

\* The refused attempt is not written to the state
fix_node_dropping_count(st, ext) ==
    LET attempts == st.fix_attempts + 1
    IN  IF attempts > st.max_fix_attempts
        THEN Return(set_fatal(st,
                       [NoFatal EXCEPT !.kind = "exceeded",
                                       !.max = st.max_fix_attempts,
                                       !.errors = st.errors]))
        ELSE IF ext.raised THEN Called(Raise(st), 1)
        ELSE Called(Return([st EXCEPT !.facts = ext.payload, !.fix_attempts = attempts,
                                      !.errors = <<>>]), 1)

\* ext: what call_llm_fix did, [raised, payload]; it is called only when
\* the attempt is within the limit
fix_node(st, ext) ==
    LET attempts == st.fix_attempts + 1
    IN  IF attempts > st.max_fix_attempts
        THEN Return(set_fatal([st EXCEPT !.fix_attempts = attempts],
                       [NoFatal EXCEPT !.kind = "exceeded",
                                       !.max = st.max_fix_attempts,
                                       !.errors = st.errors]))
        ELSE IF ext.raised THEN Called(Raise(st), 1)
        ELSE Called(Return([st EXCEPT !.facts = ext.payload, !.fix_attempts = attempts,
                                      !.errors = <<>>]), 1)

\* A persist stage that reports success whatever the mutation layer did
persist_node_swallowing(st, res) == Return([st EXCEPT !.persisted = TRUE])

\* A persist stage that marks the state as persisted before it writes
persist_node_marking_first(st, res) ==
    IF res.raised
    THEN Return(set_fatal([st EXCEPT !.persisted = TRUE], Fatal("persist_failed", "")))
    ELSE Return([st EXCEPT !.persisted = TRUE])

\* res: what persist_to_neo4j did
persist_node(st, res) ==
    IF res.raised THEN Return(set_fatal(st, Fatal("persist_failed", "")))
    ELSE Return([st EXCEPT !.persisted = TRUE])

decide_after_parse(st) == IF HasFatal(st) THEN "end" ELSE "extract"

\* Routing that does not look at the violations
decide_ignoring_errors(st) == IF HasFatal(st) THEN "end" ELSE "persist"

\* Routing that ends the run when violations were found
decide_without_repair(st) ==
    IF HasFatal(st) THEN "end"
    ELSE IF st.errors # <<>> THEN "end" ELSE "persist"

decide_after_validate(st) ==
    IF HasFatal(st) THEN "end"
    ELSE IF st.errors # <<>> THEN "fix" ELSE "persist"

\* The edges of the graph before "fix" was routed through "normalize"
EdgeFixToValidate(node) ==
    CASE node = "extract"   -> "normalize"
      [] node = "normalize" -> "validate"
      [] node = "fix"       -> "validate"
      [] node = "persist"   -> "end"

\* Edges that lead from "persist" back to "validate"
EdgePersistToValidate(node) ==
    CASE node = "extract"   -> "normalize"
      [] node = "normalize" -> "validate"
      [] node = "fix"       -> "normalize"
      [] node = "persist"   -> "validate"

\* g.add_edge(...)
Edge(node) ==
    CASE node = "extract"   -> "normalize"
      [] node = "normalize" -> "validate"
      [] node = "fix"       -> "normalize"
      [] node = "persist"   -> "end"

\* The node that follows `node` once it has left the state st
Route(node, st) ==
    CASE node = "parse"    -> decide_after_parse(st)
      [] node = "validate" -> decide_after_validate(st)
      [] OTHER             -> Edge(node)

\* A run() that returns the facts of the final state without looking at it
run_result_returning(st) == [NoOutcome EXCEPT !.kind = "returned", !.payload = st.facts]

\* LangGraphIngestionAgent.run, after the graph has ended
run_result(st) ==
    IF HasFatal(st)
    THEN [NoOutcome EXCEPT !.kind = "ValueError", !.reason = st.fatal_error]
    ELSE IF st.errors # <<>>
    THEN [NoOutcome EXCEPT !.kind = "ValueError",
                           !.reason = [NoFatal EXCEPT !.kind = "finished_with_errors",
                                                      !.errors = st.errors]]
    ELSE IF ~st.persisted
    THEN [NoOutcome EXCEPT !.kind = "ValueError",
                           !.reason = Fatal("not_persisted_unknown", "")]
    ELSE [NoOutcome EXCEPT !.kind = "returned", !.payload = st.facts]

\* The text of a failure reason up to its first variable part
Message(f) ==
    CASE f.kind = "raw_input_none"        -> "raw_input is None"
      [] f.kind = "invalid_json"          -> "Invalid input JSON: "
      [] f.kind = "not_dict"              -> "Expected dict record, got "
      [] f.kind = "node_failed"           -> f.node \o " failed: "
      [] f.kind = "exceeded"              -> "Exceeded max_fix_attempts="
      [] f.kind = "persist_failed"        -> "Persist failed: "
      [] f.kind = "finished_with_errors"  -> "Ingestion finished with errors: "
      [] f.kind = "not_persisted_unknown" ->
            "Ingestion finished but data was not persisted (unknown reason)"
      [] OTHER                            -> ""

\* An exception that leaves app.invoke leaves run() as it is
Fault(name) == [NoOutcome EXCEPT !.kind = "fault", !.reason = Fatal("propagated", name)]

(***************************************************************************)
(* What the callers and the oracles supply.                                *)
(***************************************************************************)
RawInputs ==
    { NoInput, [type |-> "dict", json |-> ""], [type |-> "list", json |-> ""],
      [type |-> "str", json |-> "dict"], [type |-> "str", json |-> "scalar"],
      [type |-> "str", json |-> "invalid"], [type |-> "int", json |-> ""] }

FactNode(label, key_props, set_props) ==
    [label |-> label, key_props |-> key_props, set_props |-> set_props]

FactRel(from_label, from_id, rel_type, to_label, to_id, rel_props) ==
    [from_label |-> from_label, from_id |-> from_id, rel_type |-> rel_type,
     to_label |-> to_label, to_id |-> to_id, rel_props |-> rel_props]

OracleNodes ==
    { <<>>,
      << FactNode("Person", [rnokpp |-> "123"], [last_name |-> "X"]) >>,
      << FactNode("Person", [rnokpp |-> "123"], [last_name |-> "Y"]) >>,
      << FactNode("Person", EmptyMap, EmptyMap) >>,
      << FactNode("Person", [last_name |-> "X"], EmptyMap) >>,
      << FactNode("Person", [rnokpp |-> NONE], [last_name |-> "Z"]) >>,
      << FactNode("Alien", [rnokpp |-> "9"], EmptyMap) >>,
      << FactNode("Address", EmptyMap, [full_text |-> "Kyiv"]) >>,
      << FactNode("PersonAlias", EmptyMap, [full_name_raw |-> "X"]) >>,
      << FactNode("Person", [rnokpp |-> "7"], [geo |-> NestedMap]) >> }

OracleRels ==
    { <<>>,
      << FactRel("Person", "123", "SPOUSE_OF", "Person", "123", [since |-> "1"]) >>,
      << FactRel("Person", "", "SPOUSE_OF", "Person", "123", EmptyMap) >>,
      << FactRel("Person", "123", "KNOWS", "Person", "123", EmptyMap) >> }

Payloads ==
    {[nodes |-> ns, rels |-> rs, meta |-> EmptyMap] :
        ns \in OracleNodes, rs \in OracleRels}

Raised == [raised |-> TRUE, payload |-> NoFacts, calls |-> 0]

OracleResults ==
    {Raised} \cup {[raised |-> FALSE, payload |-> p, calls |-> 0] : p \in Payloads}

(***************************************************************************)
(* agent/extractor.py: call_llm_extract under its retry decorator.  An     *)
(* attempt ends with the payload, with LLMExtractionError (the call to the *)
(* model failed or its answer was unusable) or, before the model is        *)
(* called, with the error of get_openai_client.                            *)
(***************************************************************************)
stop_after_attempt == 3

LLMError    == [kind |-> "LLMExtractionError", payload |-> NoFacts]
ClientError == [kind |-> "RuntimeError", payload |-> NoFacts]

\* What attempt after attempt would meet: LLMExtractionError some times and
\* then the payload or the client's error, or LLMExtractionError every time
Attempts ==
    LET errs(n) == [i \in 1..n |-> LLMError]
    IN  { errs(stop_after_attempt + 1) }
        \cup { Append(errs(n), ClientError) : n \in 0..stop_after_attempt }
        \cup { Append(errs(n), [kind |-> "returned", payload |-> p]) :
                  n \in 0..stop_after_attempt, p \in Payloads }

\* One attempt more than the decorator allows
RECURSIVE retry_once_more(_, _, _)
retry_once_more(answers, i, calls) ==
    LET a == answers[i]
    IN  CASE a.kind = "returned" ->
                [raised |-> FALSE, payload |-> a.payload, calls |-> calls + 1]
          [] a.kind = "RuntimeError" ->
                [raised |-> TRUE, payload |-> NoFacts, calls |-> calls]
          [] OTHER ->
                IF i > stop_after_attempt
                THEN [raised |-> TRUE, payload |-> NoFacts, calls |-> calls + 1]
                ELSE retry_once_more(answers, i + 1, calls + 1)

\* @retry(reraise=True, stop=stop_after_attempt(3),
\*        retry=retry_if_exception_type(LLMExtractionError)), from attempt i on
RECURSIVE retry(_, _, _)
retry(answers, i, calls) ==
    LET a == answers[i]
    IN  CASE a.kind = "returned" ->
                [raised |-> FALSE, payload |-> a.payload, calls |-> calls + 1]
          [] a.kind = "RuntimeError" ->
                [raised |-> TRUE, payload |-> NoFacts, calls |-> calls]
          [] OTHER ->
                IF i >= stop_after_attempt
                THEN [raised |-> TRUE, payload |-> NoFacts, calls |-> calls + 1]
                ELSE retry(answers, i + 1, calls + 1)

call_llm_extract(answers) == retry(answers, 1, 0)

ExtractResults == { call_llm_extract(a) : a \in Attempts }

(***************************************************************************)
(* The run: run() starts the graph, each graph node runs inside _safe_node *)
(* and hands over to the node its edge names, run() reports.               *)
(***************************************************************************)
StartRun ==
    /\ pc \in {"idle", "done"}
    /\ runs < MaxRuns
    /\ \E raw \in RawInputs, max \in 0..MaxFix :
          state' = InitialState(raw, max)
    /\ pc' = "parse"
    /\ outcome' = NoOutcome
    /\ trace' = <<>>
    /\ mcalls' = <<>>
    /\ ocalls' = NoCalls
    /\ runs' = runs + 1
    /\ UNCHANGED <<storeVars, last, pipe>>

\* What every graph node does with the result of its wrapped function
Leave(node, res) ==
    /\ state' = res.state
    /\ trace' = Append(trace, IF HasFatal(state) THEN node \o ":skipped" ELSE node)
    /\ pc' = IF res.propagated THEN "done" ELSE Route(node, res.state)
    /\ outcome' = IF res.propagated THEN Fault(node) ELSE outcome
    /\ UNCHANGED <<last, runs, pipe>>

\* The external call is made only when the node's function runs
Answers == IF HasFatal(state) THEN {Raised} ELSE OracleResults

ExtractAnswers == IF HasFatal(state) THEN {Raised} ELSE ExtractResults

\* The calls a node's function made; it makes none when it is not run
CallsIn(body) == IF HasFatal(state) THEN 0 ELSE body.calls

Parse ==
    /\ pc = "parse"
    /\ Leave("parse", safe_node("parse_input_node", state, parse_input_node(state)))
    /\ UNCHANGED <<storeVars, mcalls, ocalls>>

Extract ==
    /\ pc = "extract"
    /\ \E ext \in ExtractAnswers :
          /\ Leave("extract", safe_node("extract_node", state, extract_node(state, ext)))
          /\ ocalls' = [ocalls EXCEPT !.extract = @ + CallsIn(extract_node(state, ext))]
    /\ UNCHANGED <<storeVars, mcalls>>

Normalize ==
    /\ pc = "normalize"
    /\ Leave("normalize", safe_node("normalize_node", state, normalize_node(state)))
    /\ UNCHANGED <<storeVars, mcalls, ocalls>>

Validate ==
    /\ pc = "validate"
    /\ Leave("validate", safe_node("validate_node", state, validate_node(state)))
    /\ UNCHANGED <<storeVars, mcalls, ocalls>>

Fix ==
    /\ pc = "fix"
    /\ \E ext \in Answers :
          /\ Leave("fix", safe_node("fix_node", state, fix_node(state, ext)))
          /\ ocalls' = [ocalls EXCEPT !.fix = @ + CallsIn(fix_node(state, ext))]
    /\ UNCHANGED <<storeVars, mcalls>>

Persist ==
    /\ pc = "persist"
    /\ \E fail_at \in 0..(IF HasFatal(state) THEN 0 ELSE Len(CallsOf(state.facts))) :
       \E res \in { IF HasFatal(state)
                    THEN [raised |-> FALSE, nodes |-> nodes, rels |-> rels,
                          issued |-> mcalls]
                    ELSE persist_to_neo4j(state.facts, nodes, rels, fail_at) } :
          /\ Leave("persist",
                   safe_node("persist_node", state, persist_node(state, res)))
          /\ nodes' = res.nodes
          /\ rels' = res.rels
          /\ mcalls' = res.issued
          /\ UNCHANGED <<schema, ocalls>>

Report ==
    /\ pc = "end"
    /\ outcome' = run_result(state)
    /\ pc' = "done"
    /\ UNCHANGED <<storeVars, last, state, trace, mcalls, ocalls, runs, pipe>>

Next ==
    \/ StartRun
    \/ Parse
    \/ Extract
    \/ Normalize
    \/ Validate
    \/ Fix
    \/ Persist
    \/ Report

Spec == Init /\ [][Next]_vars

(***************************************************************************)
(* normalize on its own: any payload, normalized again and again.          *)
(***************************************************************************)
NormKeys ==
    { EmptyMap, [address_id |-> "A1"], [address_id |-> NONE],
      [alias_id |-> "P1"], [alias_id |-> NONE], [full_text |-> "Kyiv"],
      [rnokpp |-> "1"] }

NormSets ==
    { EmptyMap, [full_text |-> "Kyiv"], [full_text |-> "Lviv"], [full_text |-> ""],
      [full_name_raw |-> "X", date_birth |-> "2000"], [full_name_raw |-> "X"],
      [full_name_raw |-> "X", nick |-> "n"], [date_birth |-> "2000"] }

NormNodes ==
    { FactNode(l, k, sp) : l \in {"Address", "PersonAlias", "Person"},
                           k \in NormKeys, sp \in NormSets }

NormPairs ==
    { FactNode("Address", EmptyMap, [full_text |-> "Kyiv"]),
      FactNode("PersonAlias", EmptyMap, [full_name_raw |-> "X"]),
      FactNode("PersonAlias", [alias_id |-> NONE], [full_name_raw |-> "X"]),
      FactNode("PersonAlias", EmptyMap, [full_name_raw |-> "X", nick |-> "n"]) }

NormPayloads ==
    { [nodes |-> << n >>, rels |-> rs, meta |-> [source |-> "s"]] :
          n \in NormNodes, rs \in {r \in OracleRels : Len(r) = 1} }
    \cup { [nodes |-> << a, b >>, rels |-> <<>>, meta |-> EmptyMap] :
              a \in NormPairs, b \in NormPairs }

InitNorm ==
    /\ InitStore
    /\ pc = "normalize"
    /\ \E p \in NormPayloads : state = [NoState EXCEPT !.facts = p]
    /\ outcome = NoOutcome
    /\ trace = <<>>
    /\ mcalls = <<>>
    /\ ocalls = NoCalls
    /\ runs = 0

NormalizeAgain ==
    /\ pc = "normalize"
    /\ Len(trace) < MaxNorm
    /\ state' = [state EXCEPT !.facts = normalize(@)]
    /\ trace' = Append(trace, "normalize")
    /\ UNCHANGED <<storeVars, last, pc, outcome, mcalls, ocalls, runs, pipe>>

NextNorm == NormalizeAgain

SpecNorm == InitNorm /\ [][NextNorm]_vars

(***************************************************************************)
(* The persist stage on its own: any payload of up to MaxItems nodes and   *)
(* MaxItems relationships, written to an empty store and reported.         *)
(***************************************************************************)
WriterNodes ==
    { FactNode("Person", [rnokpp |-> "123"], [last_name |-> "X"]),
      FactNode("Person", [rnokpp |-> "456"], EmptyMap),
      FactNode("Person", EmptyMap, EmptyMap) }

WriterRels ==
    { FactRel("Person", "123", "SPOUSE_OF", "Person", "456", EmptyMap),
      FactRel("Person", "456", "CHILD_OF", "Person", "123", [since |-> "1"]),
      FactRel("Person", "123", "KNOWS", "Person", "456", EmptyMap) }

SeqsUpTo(S, n) == UNION { [1..k -> S] : k \in 0..n }

WriterPayloads ==
    { [nodes |-> ns, rels |-> rs, meta |-> EmptyMap] :
          ns \in SeqsUpTo(WriterNodes, MaxItems), rs \in SeqsUpTo(WriterRels, MaxItems) }

InitWriter ==
    /\ InitStore
    /\ pc = "persist"
    /\ \E p \in WriterPayloads : state = [InitialState(NoInput, 0) EXCEPT !.facts = p]
    /\ outcome = NoOutcome
    /\ trace = <<>>
    /\ mcalls = <<>>
    /\ ocalls = NoCalls
    /\ runs = 1

NextWriter ==
    \/ Persist
    \/ Report

SpecWriter == InitWriter /\ [][NextWriter]_vars

(***************************************************************************)
(* pipeline/ingestion_pipeline.py.  A file is what _load_json made of it   *)
(* (ok: a JSON object was read), its entity lists by list key, and its     *)
(* "relationships" object as the sequence of its (key, list) items.        *)
(***************************************************************************)
entity_mapping ==
    << <<"persons", "Person">>, <<"person_aliases", "PersonAlias">>,
       <<"organizations", "Organization">>, <<"executors", "Executor">>,
       <<"requests", "Request">>, <<"income_records", "IncomeRecord">>,
       <<"properties", "Property">>, <<"power_of_attorney", "PowerOfAttorney">>,
       <<"notarial_blanks", "NotarialBlank">>, <<"documents", "Document">> >>

\* rel_type_key.upper()
Upper(key) ==
    CASE key = "provided" -> "PROVIDED"
      [] key = "about"    -> "ABOUT"
      [] key = "knows"    -> "KNOWS"
      [] OTHER            -> key

\* IngestionPipeline._merge_entity
merge_entity(ns, label, data) ==
    IF label \notin DOMAIN ID_KEYS THEN ns
    ELSE LET id_value == Get(data, ID_KEYS[label])
         IN  IF ~Truthy(id_value) THEN ns
             ELSE LET r == merge_node(ns, label,
                                      [k \in {ID_KEYS[label]} |-> id_value], data)
                  IN  IF r.raised THEN ns ELSE r.nodes

RECURSIVE merge_items(_, _, _)
merge_items(ns, label, items) ==
    IF items = <<>> THEN ns
    ELSE merge_items(merge_entity(ns, label, Head(items)), label, Tail(items))

\* IngestionPipeline._persist_entities, from the i-th list key on
RECURSIVE persist_entities(_, _, _)
persist_entities(ns, lists, i) ==
    IF i > Len(entity_mapping) THEN ns
    ELSE LET list_key == entity_mapping[i][1]
             items    == IF list_key \in DOMAIN lists THEN lists[list_key] ELSE <<>>
         IN  persist_entities(merge_items(ns, entity_mapping[i][2], items), lists, i + 1)

\* GraphRepository.link_request_provided
link_request_provided(ns, rs, request_id, provided_label, provided_id_value) ==
    merge_relationship(ns, rs, "Request", request_id, "PROVIDED", provided_label,
                       provided_id_value, EmptyMap)

\* One entry of the PROVIDED list.  NodeLabel(node_label_name) raises
\* ValueError for a name that is no member; the handler around it is for
\* KeyError, so the ValueError leaves the loop.
provided_entry(ns, rs, rel) ==
    LET request_id      == Get(rel, "request_id")
        node_label_name == Get(rel, "node_label")
        node_id         == Get(rel, "node_id")
    IN  IF ~(Truthy(request_id) /\ Truthy(node_label_name) /\ Truthy(node_id))
        THEN [raised |-> FALSE, rels |-> rs]
        ELSE IF node_label_name \notin NodeLabel
        THEN [raised |-> TRUE, rels |-> rs]
        ELSE [raised |-> FALSE,
              rels |-> link_request_provided(ns, rs, request_id, node_label_name,
                                             node_id).rels]

\* One entry of a list of another type; the model has the ABOUT branch
typed_entry(ns, rs, rel_enum, rel) ==
    IF rel_enum = "ABOUT"
    THEN LET request == Get(rel, "request_id")
             subject == Get(rel, "subject_rnokpp")
         IN  IF Truthy(request) /\ Truthy(subject)
             THEN merge_relationship(ns, rs, "Request", request, rel_enum, "Person",
                                     subject, EmptyMap).rels
             ELSE rs
    ELSE rs

RECURSIVE rel_list_entries(_, _, _, _)
rel_list_entries(ns, rs, rel_enum, rel_list) ==
    IF rel_list = <<>> THEN [raised |-> FALSE, rels |-> rs]
    ELSE IF rel_enum = "PROVIDED"
    THEN LET r == provided_entry(ns, rs, Head(rel_list))
         IN  IF r.raised THEN r
             ELSE rel_list_entries(ns, r.rels, rel_enum, Tail(rel_list))
    ELSE rel_list_entries(ns, typed_entry(ns, rs, rel_enum, Head(rel_list)),
                          rel_enum, Tail(rel_list))

\* IngestionPipeline._persist_relationships, from the i-th item on
RECURSIVE persist_relationships(_, _, _, _)
persist_relationships(ns, rs, relationships, i) ==
    IF i > Len(relationships) THEN [raised |-> FALSE, rels |-> rs]
    ELSE LET rel_enum == Upper(relationships[i][1])
         IN  IF rel_enum \notin RelType
             THEN persist_relationships(ns, rs, relationships, i + 1)
             ELSE LET r == rel_list_entries(ns, rs, rel_enum, relationships[i][2])
                  IN  IF r.raised THEN r
                      ELSE persist_relationships(ns, r.rels, relationships, i + 1)

\* The body of the loop over the files in IngestionPipeline.run
process_file(ns, rs, file) ==
    IF ~file.ok THEN [raised |-> FALSE, nodes |-> ns, rels |-> rs]
    ELSE LET ns1 == persist_entities(ns, file.lists, 1)
             r   == persist_relationships(ns1, rs, file.relationships, 1)
         IN  [raised |-> r.raised, nodes |-> ns1, rels |-> r.rels]

Request1 == [request_id |-> "r1"]
Person1  == [rnokpp |-> "1", last_name |-> "X"]

Provided(label) == [request_id |-> "r1", node_label |-> label, node_id |-> "1"]

PipelineFiles ==
    { [ok |-> FALSE, lists |-> EmptyMap, relationships |-> <<>>],
      [ok |-> TRUE, lists |-> [persons |-> << Person1 >>, requests |-> << Request1 >>],
       relationships |-> << <<"provided", << Provided("Person") >> >> >>],
      [ok |-> TRUE, lists |-> [persons |-> << Person1 >>, requests |-> << Request1 >>],
       relationships |->
          << <<"provided", << Provided("Alien"), Provided("Person") >> >>,
             <<"about", << [request_id |-> "r1", subject_rnokpp |-> "1"] >> >> >>],
      [ok |-> TRUE, lists |-> [persons |-> << Person1 >>, requests |-> << Request1 >>],
       relationships |->
          << <<"provided", << [request_id |-> "r1", node_label |-> "Person"],
                              Provided("Person") >> >> >>],
      [ok |-> TRUE, lists |-> [requests |-> << Request1 >>, persons |-> << Person1 >>],
       relationships |->
          << <<"knows", << Provided("Person") >> >>,
             <<"about", << [request_id |-> "r1", subject_rnokpp |-> "1"] >> >> >>],
      [ok |-> TRUE, lists |-> [persons |-> << [last_name |-> "X"] >>],
       relationships |-> <<>>] }

InitPipeline ==
    /\ nodes = <<>>
    /\ rels = <<>>
    /\ schema = {}
    /\ last = NoCall
    /\ InitRun
    /\ \E fs \in SeqsUpTo(PipelineFiles, MaxFiles) :
          pipe = [files |-> fs, pos |-> 1, status |-> "idle"]

\* run(): ensure_constraints, whose exception is caught
StartPipeline ==
    /\ pipe.status = "idle"
    /\ schema' = ensure_constraints(schema).schema
    /\ pipe' = [pipe EXCEPT !.status = "running"]
    /\ UNCHANGED <<nodes, rels, last, runVars>>

\* run(): one round of the loop over the files
ProcessFile ==
    /\ pipe.status = "running"
    /\ pipe.pos <= Len(pipe.files)
    /\ LET r == process_file(nodes, rels, pipe.files[pipe.pos])
       IN  /\ nodes' = r.nodes
           /\ rels' = r.rels
           /\ pipe' = IF r.raised THEN [pipe EXCEPT !.status = "raised"]
                      ELSE [pipe EXCEPT !.pos = @ + 1]
    /\ UNCHANGED <<schema, last, runVars>>

\* run(): the loop is over
FinishPipeline ==
    /\ pipe.status = "running"
    /\ pipe.pos > Len(pipe.files)
    /\ pipe' = [pipe EXCEPT !.status = "finished"]
    /\ UNCHANGED <<storeVars, last, runVars>>

NextPipeline ==
    \/ StartPipeline
    \/ ProcessFile
    \/ FinishPipeline

SpecPipeline == InitPipeline /\ [][NextPipeline]_vars

(***************************************************************************)
(* repositories/mutation_repo.py and the merges of registry_repo.py that   *)
(* create the nodes its methods match.  A method is the two node patterns  *)
(* of its MATCH clauses, the attribute of RelType its query text names,    *)
(* the relationship properties its SET clause assigns, and whether it      *)
(* merges the relationship in both directions.                             *)
(***************************************************************************)
\* The key of the MERGE pattern in RegistryRepository.merge_<entity>
RegistryKeys ==
    [ Person          |-> "rnokpp",
      Organization    |-> "edrpou",
      IncomeRecord    |-> "income_id",
      Property        |-> "property_id",
      Request         |-> "request_id",
      Executor        |-> "executor_rnokpp",
      PowerOfAttorney |-> "poa_id" ]

\* RegistryRepository.merge_<entity>, as far as the identity of the node goes
registry_merge(ns, label, id) ==
    LET key == RegistryKeys[label]
    IN  IF MatchSet(ns, label, {key}, [k \in {key} |-> id]) = {}
        THEN Append(ns, [label |-> label, props |-> [k \in {key} |-> id]])
        ELSE ns

Link(name, from_label, from_key, rel, to_label, to_key, props, both) ==
    [name |-> name, from_label |-> from_label, from_key |-> from_key, rel |-> rel,
     to_label |-> to_label, to_key |-> to_key, props |-> props, both |-> both]

LinkMethods ==
    { Link("link_person_director_of_organization", "Person", "rnokpp",
           "DIRECTOR_OF", "Organization", "edrpou", {"role_text"}, FALSE),
      Link("link_person_founder_of_organization", "Person", "rnokpp",
           "FOUNDER_OF", "Organization", "edrpou", {"capital", "role_text"}, FALSE),
      Link("link_person_child_of_person", "Person", "rnokpp",
           "CHILD_OF", "Person", "rnokpp", {}, FALSE),
      Link("link_person_spouse_of_person", "Person", "rnokpp",
           "SPOUSE_OF", "Person", "rnokpp", {"marriage_date"}, TRUE),
      Link("link_person_earned_income", "Person", "rnokpp",
           "EARNED_INCOME", "IncomeRecord", "income_id", {}, FALSE),
      Link("link_income_paid_by_organization", "IncomeRecord", "income_id",
           "PAID_BY", "Organization", "edrpou", {}, FALSE),
      Link("link_person_owns_property", "Person", "rnokpp",
           "OWNS", "Property", "property_id", {"ownership_type", "since_date"}, FALSE),
      Link("link_person_grantor_of_poa", "Person", "rnokpp",
           "GRANTOR_OF", "PowerOfAttorney", "poa_id", {}, FALSE),
      Link("link_person_representative_of_poa", "Person", "rnokpp",
           "REPRESENTATIVE_OF", "PowerOfAttorney", "poa_id", {}, FALSE),
      Link("link_poa_authorizes_property", "PowerOfAttorney", "poa_id",
           "AUTHORIZES_PROPERTY", "Property", "property_id", {}, FALSE),
      Link("link_executor_created_request", "Executor", "executor_rnokpp",
           "CREATED_REQUEST", "Request", "request_id", {}, FALSE),
      Link("link_request_subject_of_person", "Request", "request_id",
           "SUBJECT_OF", "Person", "rnokpp", {}, FALSE) }

\* SET r.k = $k for every k of vals: a null value removes the property
SetOrRemove(xs, on, vals) ==
    [i \in DOMAIN xs |->
        IF i \in on
        THEN [xs[i] EXCEPT !.props =
                 [k \in ((DOMAIN @) \cup (DOMAIN vals))
                           \ {j \in DOMAIN vals : vals[j] = NONE} |->
                     IF k \in DOMAIN vals THEN vals[k] ELSE @[k]]]
        ELSE xs[i]]

\* One link method.  Its query text is an f-string built inside the
\* transaction function: RelType.<rel> of a name the enum does not have
\* raises AttributeError before anything is sent to the store.
link(ns, rs, m, from_id, to_id, vals) ==
    LET A     == MatchSet(ns, m.from_label, {m.from_key},
                          [k \in {m.from_key} |-> from_id])
        B     == MatchSet(ns, m.to_label, {m.to_key}, [k \in {m.to_key} |-> to_id])
        pairs == A \X B
        back  == IF m.both THEN {<<p[2], p[1]>> : p \in pairs} ELSE {}
        rs1   == MergePairs(MergePairs(rs, pairs, m.rel), back, m.rel)
        bound == {i \in DOMAIN rs1 :
                    /\ <<rs1[i].src, rs1[i].dst>> \in pairs \cup back
                    /\ rs1[i].type = m.rel}
    IN  IF m.rel \notin RelType
        THEN [raised |-> TRUE, rels |-> rs, pairs |-> pairs]
        ELSE [raised |-> FALSE, rels |-> SetOrRemove(rs1, bound, vals),
              pairs |-> pairs]

\* Arguments the callers pass
EntityIds == [ Person          |-> {"1", "2"},
               Organization    |-> {"1"},
               IncomeRecord    |-> {"1"},
               Property        |-> {"1"},
               Request         |-> {"1"},
               Executor        |-> {"1"},
               PowerOfAttorney |-> {"1"} ]
PropValues == {NONE, "a"}

RegistryMerge(label, id) ==
    /\ Len(registry_merge(nodes, label, id)) <= MaxNodes
    /\ nodes' = registry_merge(nodes, label, id)
    /\ last' = [NoCall EXCEPT !.op = "registry_merge", !.label = label,
                              !.from_id = id, !.same = FALSE]
    /\ UNCHANGED <<rels, schema, runVars, pipe>>

\* `found` is the pairs of nodes the two MATCH clauses bind
LinkCall(m, from_id, to_id, vals) ==
    LET r == link(nodes, rels, m, from_id, to_id, vals)
    IN  /\ Len(r.rels) <= MaxNodes
        /\ rels' = r.rels
        /\ last' = [NoCall EXCEPT !.op = m.name, !.label = m.from_label,
                                  !.from_id = from_id, !.rel_type = m.rel,
                                  !.to_label = m.to_label, !.to_id = to_id,
                                  !.set_props = vals, !.raised = r.raised,
                                  !.found = r.pairs, !.same = FALSE]
        /\ UNCHANGED <<nodes, schema, runVars, pipe>>

NextMutation ==
    \/ \E label \in DOMAIN RegistryKeys : \E id \in EntityIds[label] :
          RegistryMerge(label, id)
    \/ \E m \in LinkMethods :
          \E from_id \in EntityIds[m.from_label], to_id \in EntityIds[m.to_label] :
             \E vals \in [m.props -> PropValues] :
                LinkCall(m, from_id, to_id, vals)

SpecMutation == Init /\ [][NextMutation]_vars

(***************************************************************************)
(* Claims about the repository.                                            *)
(***************************************************************************)
\* Node n is the node identified by (label, key_props): a key property
\* given as None is one the node does not have
HasIdentity(n, label, key_props) ==
    /\ n.label = label
    /\ \A k \in DOMAIN key_props : Get(n.props, k) = key_props[k]

NodesOf(ns, label, key_props) ==
    {i \in DOMAIN ns : HasIdentity(ns[i], label, key_props)}

\* The nodes a step created or changed
Touched == {i \in DOMAIN nodes' : i \notin DOMAIN nodes \/ nodes'[i] # nodes[i]}

\* No two nodes of one label agree on the label's identity key
UniqueNodes(ns) ==
    \A i, j \in DOMAIN ns :
        ( /\ ns[i].label = ns[j].label
          /\ id_key(ns[i].label) \in DOMAIN ns[i].props
          /\ id_key(ns[j].label) \in DOMAIN ns[j].props
          /\ ns[i].props[id_key(ns[i].label)] = ns[j].props[id_key(ns[j].label)] )
        => i = j

\* C5 (as claimed): merge_node(label, key_props, set_props) creates or updates
\* only the node identified by (label, key_props), whatever set_props holds,
\* and no sequence of merge_node calls leaves two nodes with one identity.
C5_MergeNodeTouchesOnlyItsIdentity ==
    [][ last'.op = "merge_node" =>
          /\ \A i \in Touched :
                HasIdentity(nodes'[i], last'.label, last'.key_props)
          /\ UniqueNodes(nodes') ]_vars

\* C6 (as claimed): after N >= 1 merge_node calls with one (label, key_props)
\* there is exactly one node with that identity and its non-key properties
\* are the set_props of the last call (a property passed as None is absent).
NonKey(m, key_props) ==
    [k \in {j \in DOMAIN m : j \notin DOMAIN key_props /\ m[j] # NONE} |-> m[k]]

C6_LastSetPropsAreTheProperties ==
    (last.op = "merge_node" /\ last.same /\ ~last.raised) =>
        /\ Cardinality(NodesOf(nodes, last.label, last.key_props)) = 1
        /\ \A i \in NodesOf(nodes, last.label, last.key_props) :
              NonKey(nodes[i].props, last.key_props)
                  = NonKey(last.set_props, last.key_props)

\* The endpoint (label, id) of a relationship call is in the store
EndpointPresent(ns, label, id) ==
    \E i \in DOMAIN ns :
        /\ ns[i].label = label
        /\ Get(ns[i].props, ID_KEYS[label]) = id

\* C7: merge_relationship with an absent from- or to-endpoint leaves the
\* store as it was: no node and no relationship is created or changed.
C7_AbsentEndpointLeavesStoreUnchanged ==
    [][ ( /\ last'.op = "merge_relationship"
          /\ \/ ~EndpointPresent(nodes, last'.label, last'.from_id)
             \/ ~EndpointPresent(nodes, last'.to_label, last'.to_id) )
        => (nodes' = nodes /\ rels' = rels) ]_vars

\* C7 witness: a call whose source exists and whose target does not
C7_Witness ==
    /\ last.op = "merge_relationship"
    /\ EndpointPresent(nodes, last.label, last.from_id)
    /\ ~EndpointPresent(nodes, last.to_label, last.to_id)
    /\ rels = <<>>

\* At most one relationship of a type from a source node to a target node
UniqueRels(rs) ==
    \A i, j \in DOMAIN rs :
        (rs[i].src = rs[j].src /\ rs[i].type = rs[j].type /\ rs[i].dst = rs[j].dst)
            => i = j

\* The relationships a call's (source, type, target) names
RelsOf(ns, rs, c) ==
    {i \in DOMAIN rs :
        /\ rs[i].type = c.rel_type
        /\ HasIdentity(ns[rs[i].src], c.label,
                       [k \in {ID_KEYS[c.label]} |-> c.from_id])
        /\ HasIdentity(ns[rs[i].dst], c.to_label,
                       [k \in {ID_KEYS[c.to_label]} |-> c.to_id])}

\* C8 (as claimed): one relationship per (source, type, target), and every
\* property the most recent call for it named holds that call's value.
C8_NamedPropsHoldLastValues ==
    [][ /\ UniqueRels(rels')
        /\ last'.op = "merge_relationship" =>
              \A i \in DOMAIN rels' :
                 IF i \in RelsOf(nodes', rels', last')
                 THEN \A k \in DOMAIN last'.set_props :
                         Get(rels'[i].props, k) = last'.set_props[k]
                 ELSE i \in DOMAIN rels /\ rels'[i] = rels[i]
        /\ last'.op = "merge_node" => rels' = rels ]_vars

\* C8 (amended): one relationship per (source, type, target); every property
\* the most recent call for it named with a value other than None holds that
\* value, and every other relationship is as it was.
C8_NonNullNamedPropsHoldLastValues ==
    [][ /\ UniqueRels(rels')
        /\ last'.op = "merge_relationship" =>
              \A i \in DOMAIN rels' :
                 IF i \in RelsOf(nodes', rels', last')
                 THEN \A k \in DOMAIN last'.set_props :
                         last'.set_props[k] # NONE =>
                            Get(rels'[i].props, k) = last'.set_props[k]
                 ELSE i \in DOMAIN rels /\ rels'[i] = rels[i]
        /\ last'.op = "merge_node" => rels' = rels ]_vars

\* C8 witness: a repeat call that named w with None on a relationship whose
\* w an earlier call had set
C8_Witness ==
    /\ last.op = "merge_relationship"
    /\ last.set_props = [w |-> NONE]
    /\ \E i \in RelsOf(nodes, rels, last) : rels[i].props = [w |-> "b"]

(***************************************************************************)
(* Claims about the run.                                                   *)
(***************************************************************************)
Positions(seq, x) == {i \in DOMAIN seq : seq[i] = x}

\* Number of validation passes (runs of validate) of the run so far
ValidatePasses == Cardinality(Positions(trace, "validate"))

GraphEnded == pc \in {"end", "done"}

\* Extraction succeeded, every validation pass found violations and every
\* repair call returned a payload
AlwaysInvalid ==
    /\ ValidatePasses >= 1
    /\ Positions(trace, "persist") = {}
    /\ state.fatal_error.kind # "node_failed"

Terminal == pc = "end" /\ (state.persisted # HasFatal(state))

PcValues ==
    {"idle", "parse", "extract", "normalize", "validate", "fix", "persist",
     "end", "done"}

\* Stages a run with limit n can go through: parse, extract, n + 1 rounds of
\* normalize, validate, fix, and the last pass through normalize and validate
StageBound(n) == 2 + 3 * (n + 1) + 2

IsPrefix(p, q) == Len(p) <= Len(q) /\ \A i \in DOMAIN p : p[i] = q[i]

\* C3: the mutation layer is called, and the store is written, only in a
\* persist stage that directly follows a validation pass which found no
\* violation in the payload being persisted; no call is issued for a payload
\* holding a relationship with from_id = "".
C3_PersistOnlyValidated ==
    [][ ((mcalls' # mcalls /\ mcalls' # <<>>) \/ nodes' # nodes \/ rels' # rels)
        => /\ pc = "persist"
           /\ trace # <<>> /\ trace[Len(trace)] = "validate"
           /\ state.errors = <<>>
           /\ validate(state.facts) = <<>>
           /\ IsPrefix(mcalls', CallsOf(state.facts))
           /\ \A i \in DOMAIN state.facts.rels : state.facts.rels[i].from_id # "" ]_vars

\* C3 witness: a payload with a dangling relationship was met, repaired and
\* then persisted
C3_Witness ==
    /\ state.persisted
    /\ state.fix_attempts >= 1
    /\ \E i \in DOMAIN mcalls : mcalls[i].op = "merge_relationship"

\* C4: the stage after fix is normalize and never validate or persist, and
\* every validation pass directly follows a normalization, so a repaired
\* payload is normalized exactly once before it is validated.
C4_FixThenNormalize ==
    /\ \A i \in DOMAIN trace :
          (trace[i] = "fix" /\ i < Len(trace)) =>
              trace[i + 1] \in {"normalize", "normalize:skipped"}
    /\ \A i \in DOMAIN trace :
          trace[i] = "validate" => (i > 1 /\ trace[i - 1] = "normalize")
    /\ \A i \in DOMAIN trace :
          trace[i] = "normalize" => (i > 1 /\ trace[i - 1] \in {"extract", "fix"})
    /\ (pc = "validate" /\ ~HasFatal(state)) =>
          state.facts = normalize(state.facts)

\* C4 witness: a repair followed by one normalization and a validation pass
C4_Witness ==
    \E i \in DOMAIN trace :
        /\ i + 2 <= Len(trace)
        /\ trace[i] = "fix" /\ trace[i + 1] = "normalize"
        /\ trace[i + 2] = "validate"

\* The payload satisfies the schema: registered labels and types, the
\* label's identity key present in key_props with a non-empty value,
\* non-empty endpoint ids
NodeOK(n) ==
    /\ n.label \in NodeLabel
    /\ ID_KEYS[n.label] \in DOMAIN n.key_props
    /\ Truthy(n.key_props[ID_KEYS[n.label]])

RelOK(r) ==
    /\ r.rel_type \in RelType
    /\ r.from_label \in NodeLabel /\ r.to_label \in NodeLabel
    /\ r.from_id # "" /\ r.to_id # ""

SchemaOK(p) ==
    /\ \A i \in DOMAIN p.nodes : NodeOK(p.nodes[i])
    /\ \A i \in DOMAIN p.rels : RelOK(p.rels[i])

\* C9 (as claimed): validate returns no violation exactly when the payload
\* satisfies the schema, the identity key of every node included.
C9_ValidateIffSchemaOK ==
    (trace # <<>> /\ trace[Len(trace)] = "validate") =>
        ((state.errors = <<>>) <=> SchemaOK(state.facts))

\* C10 (as claimed): every node a run wrote is keyed by exactly the
\* identity key of its label, with a value that is neither None nor empty.
C10_WrittenNodesKeyedByIdentity ==
    /\ \A i \in DOMAIN mcalls :
          mcalls[i].op = "merge_node" =>
              /\ mcalls[i].label \in NodeLabel
              /\ DOMAIN mcalls[i].key_props = {ID_KEYS[mcalls[i].label]}
              /\ Truthy(mcalls[i].key_props[ID_KEYS[mcalls[i].label]])
    /\ \A i \in DOMAIN nodes :
          /\ nodes[i].label \in NodeLabel
          /\ Truthy(Get(nodes[i].props, ID_KEYS[nodes[i].label]))

\* The payload names a label or a relationship type outside the closed sets
Unregistered(p) ==
    \/ \E i \in DOMAIN p.nodes : p.nodes[i].label \notin NodeLabel
    \/ \E i \in DOMAIN p.rels :
          \/ p.rels[i].rel_type \notin RelType
          \/ p.rels[i].from_label \notin NodeLabel
          \/ p.rels[i].to_label \notin NodeLabel

\* C11: every node of the store has a label of NodeLabel and every
\* relationship a type of RelType, and no step of a run whose payload names
\* an unregistered label or relationship type writes to the store or calls
\* the mutation layer.
C11_ClosedSchemaInStore ==
    [][ /\ \A i \in DOMAIN nodes' : nodes'[i].label \in NodeLabel
        /\ \A i \in DOMAIN rels' : rels'[i].type \in RelType
        /\ (pc \notin {"idle", "done"} /\ Unregistered(state.facts)) =>
              /\ nodes' = nodes /\ rels' = rels
              /\ mcalls' = mcalls ]_vars

\* C11 witness: a run that met an unregistered relationship type after an
\* earlier run had filled the store, and ended
C11_Witness ==
    /\ pc = "done"
    /\ runs >= 2
    /\ nodes # <<>>
    /\ \E i \in DOMAIN state.facts.rels : state.facts.rels[i].rel_type \notin RelType
    /\ mcalls = <<>>

\* st2 is st with a fatal_error of the given kind and nothing else changed
FaultKept(st, st2, kind, name) ==
    /\ st2.fatal_error # NoFatal
    /\ st2.fatal_error.kind = kind
    /\ st2.fatal_error.node = name
    /\ st2 = [st EXCEPT !.fatal_error = st2.fatal_error]

\* C12: when the work of a stage raises (the input does not parse, the
\* extraction or the repair oracle raises, a mutation call fails) the stage
\* leaves the state it started with plus a fatal_error naming the failure
\* and lets no exception out; from then on no stage changes the state, and
\* run() reports that fatal_error.
C12_FaultBecomesFatal ==
    [][ /\ (pc = "parse" /\ ~HasFatal(state) /\ state.raw_input.type # "none"
                /\ safe_parse_raw_input(state.raw_input).raised) =>
              /\ FaultKept(state, state', "invalid_json", "")
              /\ pc' = "end"
        /\ (pc = "extract" /\ ~HasFatal(state)) =>
              LET r == safe_node("extract_node", state, extract_node(state, Raised))
              IN  ~r.propagated /\ FaultKept(state, r.state, "node_failed", "extract_node")
        /\ (pc = "fix" /\ ~HasFatal(state)
                /\ state.fix_attempts < state.max_fix_attempts) =>
              LET r == safe_node("fix_node", state, fix_node(state, Raised))
              IN  ~r.propagated /\ FaultKept(state, r.state, "node_failed", "fix_node")
        /\ (pc = "persist" /\ ~HasFatal(state)) =>
              \A fail_at \in 1..Len(CallsOf(state.facts)) :
                 LET res == persist_to_neo4j(state.facts, nodes, rels, fail_at)
                     r   == safe_node("persist_node", state, persist_node(state, res))
                 IN  /\ res.raised /\ ~r.propagated
                     /\ FaultKept(state, r.state, "persist_failed", "")
        /\ (HasFatal(state) /\ pc \notin {"idle", "done"}) =>
              /\ state' = state
              /\ pc' \in PcValues \ {"idle", "persist", "fix"}
              /\ pc' = "done" =>
                    (outcome'.kind = "ValueError" /\ outcome'.reason = state.fatal_error)
        /\ (HasFatal(state') /\ pc' \in {"end", "done"}) => ~state'.persisted ]_vars

\* C12 witness: the repair oracle raised in the second repair, after a first
\* repair that returned; the violations and the count of the first repair
\* are still in the state the run ended with
C12_Witness ==
    /\ pc = "done"
    /\ state.fatal_error.kind = "node_failed"
    /\ state.fatal_error.node = "fix_node"
    /\ state.fix_attempts = 1
    /\ state.errors # <<>>
    /\ outcome.kind = "ValueError"
    /\ outcome.reason = state.fatal_error

\* The fix stage is about to do its work
FixRuns == pc = "fix" /\ ~HasFatal(state)

\* C13 (as claimed): a repair that fails while attempts remain does not end
\* the run; the fix stage sets fatal_error only when the attempts are
\* exhausted, and then with the attempt-exhaustion reason.
C13_RepairFailureIsFolded ==
    [][ FixRuns =>
          /\ state.fix_attempts < state.max_fix_attempts => ~HasFatal(state')
          /\ HasFatal(state') => state'.fatal_error.kind = "exceeded" ]_vars

\* C14 (as claimed): every execution of the fix stage adds exactly 1 to
\* fix_attempts, a repaired payload comes with an empty violation list, and
\* a validation pass leaves exactly the violations of the payload it saw.
C14_FixCountsAndClears ==
    [][ /\ FixRuns => state'.fix_attempts = state.fix_attempts + 1
        /\ (FixRuns /\ ~HasFatal(state')) => state'.errors = <<>>
        /\ (pc = "validate" /\ ~HasFatal(state)) =>
              state'.errors = validate(state.facts) ]_vars

\* C15 (as claimed): 0 <= fix_attempts <= max_fix_attempts in every state.
C15_CounterWithinLimit ==
    /\ 0 <= state.fix_attempts
    /\ state.fix_attempts <= state.max_fix_attempts

\* C15 (amended): 0 <= fix_attempts <= max_fix_attempts + 1 in every state;
\* the counter is max_fix_attempts + 1 exactly in the states of a run that
\* ended by exhausting its attempts (the refused attempt is counted), and
\* the fix stage is entered at most max_fix_attempts + 1 times.
C15_CounterWithinLimitPlusOne ==
    /\ 0 <= state.fix_attempts
    /\ state.fix_attempts <= state.max_fix_attempts + 1
    /\ (state.fix_attempts = state.max_fix_attempts + 1)
          <=> (state.fatal_error.kind = "exceeded")
    /\ state.fatal_error.kind = "exceeded" =>
          state.fatal_error.max = state.max_fix_attempts
    /\ Cardinality(Positions(trace, "fix")) <= state.max_fix_attempts + 1

\* C15 witness: a run with a limit of at least 1 that exhausted its attempts
C15_Witness ==
    /\ pc = "done"
    /\ state.max_fix_attempts >= 1
    /\ state.fatal_error.kind = "exceeded"
    /\ state.fix_attempts = state.max_fix_attempts + 1
    /\ Cardinality(Positions(trace, "fix")) = state.fix_attempts

\* The raw input is a JSON object, given as a dict or as its text
ObjectInput(raw) ==
    \/ raw.type = "dict"
    \/ raw.type = "str" /\ raw.json = "dict"

InputFailures == {"raw_input_none", "invalid_json", "not_dict"}

\* C16: a raw input that is None, does not parse or parses to something
\* other than an object takes the run from parse straight to the fatal end:
\* parse is its only stage, no oracle and no mutation call is made, the
\* store is untouched and run() reports the input failure; an object input
\* goes from parse to extract.
C16_BadInputEndsAtParse ==
    [][ /\ (pc = "parse" /\ ~ObjectInput(state.raw_input)) =>
              /\ pc' = "end"
              /\ state'.fatal_error.kind \in InputFailures
              /\ state' = [state EXCEPT !.fatal_error = state'.fatal_error]
              /\ trace' = <<"parse">>
              /\ UNCHANGED <<nodes, rels, mcalls>>
        /\ (pc = "end" /\ ~ObjectInput(state.raw_input)) =>
              /\ trace = <<"parse">> /\ mcalls = <<>>
              /\ pc' = "done"
              /\ outcome'.kind = "ValueError"
              /\ outcome'.reason.kind \in InputFailures
              /\ UNCHANGED <<nodes, rels, mcalls, trace, state>>
        /\ (pc = "parse" /\ ObjectInput(state.raw_input)) =>
              (pc' = "extract" /\ ~HasFatal(state')) ]_vars

\* C16 witness: a run on the text of a JSON scalar has ended
C16_Witness ==
    /\ pc = "done"
    /\ state.raw_input = [type |-> "str", json |-> "scalar"]
    /\ state.fatal_error.kind = "not_dict"
    /\ trace = <<"parse">>
    /\ outcome.kind = "ValueError"

\* The reasons of a validation failure and of the exhaustion of the attempts
ValidationReasons ==
    { Message([NoFatal EXCEPT !.kind = "exceeded"]),
      Message([NoFatal EXCEPT !.kind = "finished_with_errors"]) }

\* C17: when a mutation call of the persist stage fails the stage ends in
\* the fatal state with persisted = FALSE and the persistence-failure reason,
\* which is not a reason of a validation failure or of exhaustion, and run()
\* reports it; when every call succeeds the stage ends in success with
\* persisted = TRUE and run() returns.
C17_PersistOutcome ==
    [][ /\ (pc = "persist" /\ ~HasFatal(state)) =>
              /\ \A fail_at \in 0..Len(CallsOf(state.facts)) :
                    LET res == persist_to_neo4j(state.facts, nodes, rels, fail_at)
                        r   == safe_node("persist_node", state, persist_node(state, res))
                    IN  /\ res.raised <=> fail_at >= 1
                        /\ res.raised =>
                              /\ r.state.fatal_error.kind = "persist_failed"
                              /\ ~r.state.persisted
                        /\ ~res.raised =>
                              /\ r.state.persisted
                              /\ ~HasFatal(r.state)
                              /\ res.issued = CallsOf(state.facts)
              /\ pc' = "end"
              /\ state'.persisted # HasFatal(state')
              /\ HasFatal(state') => state'.fatal_error.kind = "persist_failed"
        /\ (pc = "end" /\ state.fatal_error.kind = "persist_failed") =>
              /\ ~state.persisted
              /\ outcome'.kind = "ValueError"
              /\ outcome'.reason = state.fatal_error
              /\ Message(outcome'.reason) \notin ValidationReasons
        /\ (pc = "end" /\ state.persisted) => outcome'.kind = "returned" ]_vars

\* C17 witness: a run whose first payload was valid and whose mutation call
\* failed has reported the persistence failure
C17_Witness ==
    /\ pc = "done"
    /\ state.fatal_error.kind = "persist_failed"
    /\ state.fix_attempts = 0
    /\ ~state.persisted
    /\ mcalls # <<>>
    /\ outcome.kind = "ValueError"
    /\ Message(outcome.reason) = "Persist failed: "

\* The store after the given calls, one after the other, all succeeding
RECURSIVE Effect(_, _, _)
Effect(ns, rs, calls) ==
    IF calls = <<>> THEN <<ns, rs>>
    ELSE LET r == Issue(ns, rs, Head(calls))
         IN  Effect(r.nodes, r.rels, Tail(calls))

\* C18: if the k-th mutation call of the persist stage fails, the calls
\* issued are the first k of the payload, the store afterwards is the store
\* before the stage with the first k - 1 calls applied (none undone, none
\* later applied), and the run reports failure and writes nothing more.
C18_NoRollback ==
    [][ /\ (pc = "persist" /\ ~HasFatal(state)) =>
              /\ \A k \in 1..Len(CallsOf(state.facts)) :
                    LET res == persist_to_neo4j(state.facts, nodes, rels, k)
                    IN  /\ res.raised
                        /\ res.issued = SubSeq(CallsOf(state.facts), 1, k)
                        /\ <<res.nodes, res.rels>> =
                              Effect(nodes, rels, SubSeq(CallsOf(state.facts), 1, k - 1))
              /\ HasFatal(state') =>
                    /\ mcalls' # <<>>
                    /\ mcalls' = SubSeq(CallsOf(state.facts), 1, Len(mcalls'))
                    /\ <<nodes', rels'>> =
                          Effect(nodes, rels, SubSeq(mcalls', 1, Len(mcalls') - 1))
              /\ state'.persisted =>
                    <<nodes', rels'>> = Effect(nodes, rels, CallsOf(state.facts))
        /\ (pc = "end" /\ state.fatal_error.kind = "persist_failed") =>
              /\ UNCHANGED <<nodes, rels, mcalls>>
              /\ outcome'.kind = "ValueError" ]_vars

\* C18 witness: the second call of the first run failed; the node of its
\* first call is in the store and its relationship is not
C18_Witness ==
    /\ pc = "done"
    /\ runs = 1
    /\ state.fatal_error.kind = "persist_failed"
    /\ Len(mcalls) = 2
    /\ Len(nodes) = 1
    /\ rels = <<>>
    /\ outcome.kind = "ValueError"

\* C19: a call of run ends once, by returning a payload or by reporting one
\* failure; it returns only from a final state with persisted = TRUE, no
\* fatal_error and no violations, and the payload it returns is the one the
\* last validation pass found clean and the persist stage handed, whole, to
\* the mutation layer.
C19_OneOutcome ==
    [][ /\ pc # "done" => outcome = NoOutcome
        /\ (pc = "done" /\ pc' = "done") => outcome' = outcome
        /\ pc' = "done" =>
              /\ pc \in {"end", "done"}
              /\ outcome'.kind \in {"returned", "ValueError"}
              /\ outcome'.kind = "ValueError" =>
                    /\ outcome'.reason # NoFatal
                    /\ outcome'.payload = NoFacts
              /\ outcome'.kind = "returned" =>
                    /\ outcome'.reason = NoFatal
                    /\ state'.persisted
                    /\ ~HasFatal(state')
                    /\ state'.errors = <<>>
                    /\ outcome'.payload = state'.facts
                    /\ validate(outcome'.payload) = <<>>
                    /\ trace'[Len(trace')] = "persist"
                    /\ trace'[Len(trace') - 1] = "validate"
                    /\ mcalls' = CallsOf(outcome'.payload) ]_vars

\* C19 witness: the record of one person was extracted, found valid, written
\* and returned
C19_Witness ==
    /\ pc = "done"
    /\ outcome.kind = "returned"
    /\ outcome.payload.nodes =
          << FactNode("Person", [rnokpp |-> "123"], [last_name |-> "X"]) >>
    /\ state.persisted
    /\ state.fix_attempts = 0
    /\ \E i \in DOMAIN nodes :
          nodes[i] = [label |-> "Person",
                      props |-> [rnokpp |-> "123", last_name |-> "X"]]

\* The kind of failure, in the words of run's contract, that a reason is
ReasonKind(f) ==
    CASE f.kind \in {"raw_input_none", "invalid_json"} -> "invalid_input"
      [] f.kind = "not_dict"                           -> "not_an_object"
      [] f.kind = "exceeded"                           -> "fix_attempts_exceeded"
      [] f.kind = "finished_with_errors"               -> "unresolved_violations"
      [] f.kind = "not_persisted_unknown"              -> "not_persisted_unknown"
      [] f.kind = "node_failed"                        -> "stage_failed"
      [] f.kind = "persist_failed"                     -> "persist_failed"
      [] OTHER                                         -> "other"

FiveKinds ==
    { "invalid_input", "not_an_object", "fix_attempts_exceeded",
      "unresolved_violations", "not_persisted_unknown" }

Failed == pc = "done" /\ outcome.kind = "ValueError"

Repairs ==
    IF state.fatal_error.kind = "exceeded" THEN state.fix_attempts - 1
    ELSE state.fix_attempts

Normalized == trace # <<>> /\ trace[Len(trace)] = "normalize"

\* C22: normalize(normalize(x)) = normalize(x): a payload that has been
\* normalized is left as it is, in every part, by another normalization.
C22_NormalizeIdempotent ==
    [][ /\ Normalized => state'.facts = state.facts
        /\ Normalized' => normalize(state'.facts) = state'.facts ]_vars

\* C22 witness: an address that got its synthetic id in the first
\* normalization has been normalized twice
C22_Witness ==
    /\ Len(trace) = 2
    /\ state.facts.nodes[1].label = "Address"
    /\ state.facts.nodes[1].key_props =
          [address_id |-> stable_hash_address("Kyiv")]

\* C23: normalize changes no value of a key that is in a node's key_props
\* (given by the oracle or set by an earlier normalization), and leaves the
\* labels, the set_props, the relationships and meta as they are.
C23_NormalizeKeepsIdentities ==
    [][ /\ DOMAIN state'.facts.nodes = DOMAIN state.facts.nodes
        /\ \A i \in DOMAIN state.facts.nodes :
              LET a == state.facts.nodes[i]
                  b == state'.facts.nodes[i]
              IN  /\ b.label = a.label
                  /\ b.set_props = a.set_props
                  /\ \A k \in DOMAIN a.key_props :
                        k \in DOMAIN b.key_props /\ b.key_props[k] = a.key_props[k]
        /\ state'.facts.rels = state.facts.rels
        /\ state'.facts.meta = state.facts.meta ]_vars

\* C23 witness: an address that came with an id and with a full_text has
\* been normalized and has the id it came with
C23_Witness ==
    /\ Normalized
    /\ state.facts.nodes[1] =
          FactNode("Address", [address_id |-> "A1"], [full_text |-> "Kyiv"])
    /\ state.facts.rels # <<>>

\* C24 (as claimed): after normalize every node with a registered label has
\* a present (non-null, non-empty) value for the identity key of its label.
C24_EveryNodeGetsIdentity ==
    Normalized =>
        \A i \in DOMAIN state.facts.nodes :
            LET n == state.facts.nodes[i]
            IN  n.label \in NodeLabel =>
                    Truthy(Get(n.key_props, ID_KEYS[n.label]))

\* The fields the synthetic id of a label is derived from
Canon(n) ==
    IF n.label = "Address"
    THEN << Or(Get(n.set_props, "full_text"), Get(n.key_props, "full_text")) >>
    ELSE << Get(n.set_props, "full_name_raw"), Get(n.set_props, "date_birth") >>

HasNested(p) ==
    \/ \E i \in DOMAIN p.nodes :
          \/ \E k \in DOMAIN p.nodes[i].key_props : p.nodes[i].key_props[k] = NestedMap
          \/ \E k \in DOMAIN p.nodes[i].set_props : p.nodes[i].set_props[k] = NestedMap
    \/ \E i \in DOMAIN p.rels :
          \E k \in DOMAIN p.rels[i].rel_props : p.rels[i].rel_props[k] = NestedMap

\* C26 (as claimed): a validation pass over a payload in which a property
\* value is a nested object leaves violations, so the persist stage is not
\* reached with such a payload and no mutation call carries it.
C26_NestedValuesRejected ==
    /\ (trace # <<>> /\ trace[Len(trace)] = "validate" /\ HasNested(state.facts)) =>
          state.errors # <<>>
    /\ (pc = "persist") => ~HasNested(state.facts)
    /\ \A i \in DOMAIN mcalls :
          /\ \A k \in DOMAIN mcalls[i].set_props : mcalls[i].set_props[k] # NestedMap
          /\ \A k \in DOMAIN mcalls[i].key_props : mcalls[i].key_props[k] # NestedMap

(***************************************************************************)
(* Claims about the schema setup.                                          *)
(***************************************************************************)
\* What one call of ensure_constraints leaves in an empty store
Declared == ensure_constraints({}).schema

\* C27: ensure_constraints is idempotent.  Whatever merges came before it and
\* however often it ran already, a call does not raise, leaves exactly the
\* constraints and indexes that a single call on an empty store leaves,
\* changes no node and no relationship, and a further call would again
\* neither raise nor change that set.
C27_EnsureConstraintsIdempotent ==
    [][ last'.op = "ensure_constraints" =>
            /\ ~last'.raised
            /\ schema' = Declared
            /\ nodes' = nodes
            /\ rels' = rels
            /\ ~ensure_constraints(schema').raised
            /\ ensure_constraints(schema').schema = schema' ]_vars

\* A repeated call: everything was in place already, and merges have run
C27_Witness ==
    /\ last.op = "ensure_constraints"
    /\ last.found = {e.name : e \in Declared}
    /\ nodes # <<>>
    /\ rels # <<>>

UniquenessOn(sch) ==
    { <<e.label, e.props>> : e \in {x \in sch : x.kind = "constraint"} }

\* C28: after ensure_constraints the store has a uniqueness constraint for
\* every member of NodeLabel, on the one property ID_KEYS gives that label,
\* and for no other pair; ID_KEYS has an entry for every member of NodeLabel.
C28_ConstraintsMatchIdKeys ==
    /\ DOMAIN ID_KEYS = NodeLabel
    /\ last.op = "ensure_constraints" =>
          UniquenessOn(schema) = { <<l, << id_key(l) >> >> : l \in NodeLabel }

C28_Witness ==
    /\ last.op = "ensure_constraints"
    /\ Cardinality(UniquenessOn(schema)) = Cardinality(NodeLabel)
    /\ last.found = {}

(***************************************************************************)
(* Claims about concurrent writers.  Each merge_node call is one           *)
(* transaction; two concurrent calls are applied in one order or the other.*)
(***************************************************************************)
\* The nodes after call c and then call d
InOrder(ns, c, d) ==
    merge_node(merge_node(ns, c[1], c[2], c[3]).nodes, d[1], d[2], d[3]).nodes

\* The nodes of the identity (label, key_props)
OfIdentity(ns, label, key_props) ==
    {i \in DOMAIN ns :
        /\ ns[i].label = label
        /\ \A k \in DOMAIN key_props :
              k \in DOMAIN ns[i].props /\ ns[i].props[k] = key_props[k]}

\* C29: whatever the store holds, two merge_node calls on the same label and
\* key_props leave the same nodes in either order, and exactly one node of
\* that identity.
C29_MergesCommute ==
    \A c \in NodeCalls, d \in NodeCalls :
        (c[1] = d[1] /\ c[2] = d[2] /\ DOMAIN c[2] # {}) =>
            /\ InOrder(nodes, c, d) = InOrder(nodes, d, c)
            /\ Cardinality(OfIdentity(InOrder(nodes, c, d), c[1], c[2])) = 1

(***************************************************************************)
(* Claims about how often a payload is written.                            *)
(***************************************************************************)
PersistRuns == Positions(trace, "persist") \cup Positions(trace, "persist:skipped")

\* C30: a run goes through the persist stage at most once, and exactly once
\* when it returns; the calls it has issued are, in order and one per
\* element, those of the first nodes and relationships of its payload, so no
\* node and no relationship is handed to the mutation layer twice.
C30_PersistOnce ==
    /\ Cardinality(PersistRuns) <= 1
    /\ PersistRuns = {} => mcalls = <<>>
    /\ PersistRuns # {} =>
          /\ PersistRuns = {Len(trace)}
          /\ Len(mcalls) <= Len(state.facts.nodes) + Len(state.facts.rels)
          /\ mcalls = SubSeq(CallsOf(state.facts), 1, Len(mcalls))
    /\ outcome.kind = "returned" =>
          /\ Cardinality(Positions(trace, "persist")) = 1
          /\ mcalls = CallsOf(state.facts)

\* C30 witness: a run that went round the repair loop has returned after one
\* persist stage that issued a node call and a relationship call
C30_Witness ==
    /\ pc = "done"
    /\ outcome.kind = "returned"
    /\ Cardinality(Positions(trace, "fix")) >= 1
    /\ Cardinality(Positions(trace, "validate")) >= 2
    /\ Cardinality(Positions(trace, "persist")) = 1
    /\ \E i \in DOMAIN mcalls : mcalls[i].op = "merge_node"
    /\ \E i \in DOMAIN mcalls : mcalls[i].op = "merge_relationship"

(***************************************************************************)
(* Further claims about the repository and the writer.                     *)
(***************************************************************************)
\* C31: a merge_node call whose key_props is empty, or holds only None
\* values, raises and leaves the store as it was: it binds no node and no
\* node is created or updated.
C31_EmptyEffectiveKeyRejected ==
    [][ (last'.op = "merge_node" /\ DOMAIN to_props(last'.key_props) = {}) =>
            /\ last'.raised
            /\ last'.bound = {}
            /\ nodes' = nodes ]_vars

\* C32: the calls the persist stage issues are, position by position, the
\* merge_node calls of the payload's nodes in payload order followed by the
\* merge_relationship calls of its relationships in payload order; a
\* relationship call is issued only after every node call, so when a
\* merge_node fails no merge_relationship has been issued; a stage that
\* succeeds has issued all of them.
C32_NodesBeforeRelationships ==
    LET ns == state.facts.nodes
        rs == state.facts.rels
    IN  /\ Len(mcalls) <= Len(ns) + Len(rs)
        /\ \A i \in DOMAIN mcalls :
              IF i <= Len(ns) THEN mcalls[i] = NodeCall(ns[i])
              ELSE mcalls[i] = RelCall(rs[i - Len(ns)])
        /\ \A i \in DOMAIN mcalls :
              mcalls[i].op = "merge_relationship" =>
                  /\ i > Len(ns)
                  /\ \A j \in DOMAIN ns : mcalls[j].op = "merge_node"
        /\ (HasFatal(state) /\ mcalls # <<>> /\ mcalls[Len(mcalls)].op = "merge_node") =>
              \A i \in DOMAIN mcalls : mcalls[i].op = "merge_node"
        /\ state.persisted => Len(mcalls) = Len(ns) + Len(rs)

\* C32 witness: the second of two different node calls failed, and none of
\* the payload's two relationships was handed over
C32_Witness ==
    /\ state.fatal_error.kind = "persist_failed"
    /\ Len(state.facts.nodes) = 2
    /\ state.facts.nodes[1] # state.facts.nodes[2]
    /\ Len(state.facts.rels) = 2
    /\ Len(mcalls) = 2
    /\ Len(nodes) = 1

(***************************************************************************)
(* Further claims about the run.                                           *)
(***************************************************************************)
\* C33: the fatal state is absorbing.  In a state with fatal_error set every
\* wrapped stage returns the state as it is, whatever the oracles or the
\* store would have answered; a step of the run leaves the state, the store
\* and the calls issued unchanged, a stage it goes through is recorded as
\* skipped, and it leads to normalize, validate or the end, never to
\* extract, fix or persist.
C33_FatalIsAbsorbing ==
    [][ (HasFatal(state) /\ pc \notin {"idle", "done"}) =>
            /\ state' = state
            /\ UNCHANGED <<nodes, rels, schema, mcalls>>
            /\ pc # "end" => trace' = Append(trace, pc \o ":skipped")
            /\ pc = "end" => trace' = trace
            /\ pc' \in {"normalize", "validate", "end", "done"}
            /\ safe_node("parse_input_node", state, parse_input_node(state)).state = state
            /\ safe_node("normalize_node", state, normalize_node(state)).state = state
            /\ safe_node("validate_node", state, validate_node(state)).state = state
            /\ \A ext \in OracleResults :
                  /\ safe_node("extract_node", state, extract_node(state, ext)).state = state
                  /\ safe_node("fix_node", state, fix_node(state, ext)).state = state
            /\ \A fail_at \in 0..Len(CallsOf(state.facts)) :
                  safe_node("persist_node", state,
                            persist_node(state, persist_to_neo4j(state.facts, nodes, rels,
                                                                 fail_at))).state = state ]_vars

\* C33 witness: the extraction failed; normalize and validate were skipped
\* and the run reported the failure without a call to the mutation layer
C33_Witness ==
    /\ pc = "done"
    /\ state.fatal_error = Fatal("node_failed", "extract_node")
    /\ trace = <<"parse", "extract", "normalize:skipped", "validate:skipped">>
    /\ mcalls = <<>>
    /\ outcome.kind = "ValueError"

\* C34: in every state of a run persisted = TRUE goes with no fatal_error
\* and no violation, so persisted and fatal_error are never both set; within
\* a run persisted never goes from TRUE back to FALSE, and it is FALSE until
\* the persist stage has run.
C34_PersistedIsClean ==
    [][ /\ state.persisted => (~HasFatal(state) /\ state.errors = <<>>)
        /\ state'.persisted => (~HasFatal(state') /\ state'.errors = <<>>)
        /\ (state.persisted /\ pc # "done") => state'.persisted
        /\ (state'.persisted /\ ~state.persisted) =>
              (pc = "persist" /\ trace'[Len(trace')] = "persist") ]_vars

\* C34 witness: the second run of the agent has written its payload after a
\* repair and reported success
C34_Witness ==
    /\ runs = 2
    /\ pc = "done"
    /\ state.persisted
    /\ state.fix_attempts = 1
    /\ outcome.kind = "returned"

RECURSIVE LeadingErrors(_)
LeadingErrors(answers) ==
    IF answers = <<>> \/ Head(answers) # LLMError THEN 0
    ELSE 1 + LeadingErrors(Tail(answers))

FixPasses == Cardinality(Positions(trace, "fix"))

\* C36: a run calls the extraction model at most three times: only an
\* LLMExtractionError is followed by a further attempt, and the third one is
\* passed on; it calls the repair model at most max_fix_attempts times, once
\* in every fix pass within the limit and not in the pass beyond it.
C36_OracleCallsBounded ==
    /\ ocalls.extract <= 3
    /\ ocalls.fix <= state.max_fix_attempts
    /\ ocalls.fix = FixPasses - (IF state.fatal_error.kind = "exceeded" THEN 1 ELSE 0)
    /\ Positions(trace, "extract") = {} => ocalls.extract = 0
    /\ (Positions(trace, "extract") # {} /\ state.facts # NoFacts) => ocalls.extract >= 1
    /\ pc = "extract" =>
          \A a \in Attempts :
             LET r == call_llm_extract(a)
                 e == LeadingErrors(a)
             IN  /\ r.calls <= 3
                 /\ e >= 3 => (r.raised /\ r.calls = 3)
                 /\ (e < 3 /\ a[e + 1] = ClientError) => (r.raised /\ r.calls = e)
                 /\ (e < 3 /\ a[e + 1].kind = "returned") =>
                       (~r.raised /\ r.calls = e + 1 /\ r.payload = a[e + 1].payload)

\* C36 witness: the extraction succeeded at the third attempt, both repairs
\* the run allowed were made, and the third fix pass ended the run
C36_Witness ==
    /\ pc = "done"
    /\ ocalls.extract = 3
    /\ state.max_fix_attempts = 2
    /\ ocalls.fix = 2
    /\ FixPasses = 3
    /\ state.fatal_error.kind = "exceeded"

\* The nodes of ns that the endpoint (label, id value) of a relationship names
Endpoint(ns, label, id_value) ==
    MatchSet(ns, label, {id_key(label)}, [k \in {id_key(label)} |-> id_value])

\* The relationships of payload p with an endpoint that is not among ns
Dangling(p, ns) ==
    {i \in DOMAIN p.rels :
        \/ Endpoint(ns, p.rels[i].from_label, p.rels[i].from_id) = {}
        \/ Endpoint(ns, p.rels[i].to_label, p.rels[i].to_id) = {}}

\* C37: merge_relationship on an absent endpoint returns normally and writes
\* nothing.  So when the persist stage is reached and the store does not
\* fail, the stage succeeds even if the payload has relationships whose
\* endpoint is neither in the payload nor in the store: their calls are
\* issued, none of them raises or adds a relationship, the state is marked
\* persisted and run() returns.
C37_AbsentEndpointIsSilent ==
    [][ (pc = "persist" /\ ~HasFatal(state)) =>
            LET res == persist_to_neo4j(state.facts, nodes, rels, 0)
                st  == safe_node("persist_node", state, persist_node(state, res)).state
            IN  /\ ~res.raised
                /\ st.persisted
                /\ run_result(st).kind = "returned"
                /\ \A i \in Dangling(state.facts, res.nodes) :
                      LET r == state.facts.rels[i]
                          m == merge_relationship(res.nodes, res.rels, r.from_label,
                                                  r.from_id, r.rel_type, r.to_label,
                                                  r.to_id, r.rel_props)
                      IN  /\ \E j \in DOMAIN res.issued : res.issued[j] = RelCall(r)
                          /\ ~m.raised
                          /\ m.bound = {}
                          /\ m.rels = res.rels
                          /\ m.nodes = res.nodes
                /\ (Dangling(state.facts, res.nodes) = DOMAIN state.facts.rels) =>
                      res.rels = rels ]_vars

\* C37 witness: a run whose payload was one relationship between persons
\* that no store node and no payload node stands for has returned; the
\* store holds no node and no relationship
C37_Witness ==
    /\ pc = "done"
    /\ outcome.kind = "returned"
    /\ state.persisted
    /\ state.facts.nodes = <<>>
    /\ Len(state.facts.rels) = 1
    /\ Len(mcalls) = 1
    /\ mcalls[1].op = "merge_relationship"
    /\ nodes = <<>>
    /\ rels = <<>>

(***************************************************************************)
(* Claims about the pipeline.                                              *)
(***************************************************************************)
\* C38: a PROVIDED entry whose node_label is not registered is skipped: it
\* never ends IngestionPipeline.run with an exception, the run goes on to
\* the entries and files after it and ends when every file was processed.
C38_UnknownLabelIsSkipped ==
    /\ pipe.status # "raised"
    /\ pipe.status = "finished" => pipe.pos = Len(pipe.files) + 1

(***************************************************************************)
(* Claims about the mutation repository.                                   *)
(***************************************************************************)
\* C39: every link method writes a relationship whose type is a member of
\* RelType, so a call whose two endpoints exist completes and leaves its
\* relationship between them.
C39_EveryLinkNamesARelType ==
    (last.op \in {m.name : m \in LinkMethods} /\ last.found # {}) =>
        /\ ~last.raised
        /\ last.rel_type \in RelType
        /\ \A p \in last.found : RelIndex(rels, p[1], last.rel_type, p[2]) # {}

====
